---- MODULE Spec2Model ----
(***************************************************************************)
(* A model of the RAG chatbot with per-user memory:                        *)
(*   app/services/memory_service.py   the Conversation Store (JSON files)  *)
(*   app/services/embedding_service.py, vector_store.py                    *)
(*   app/services/rag_service.py      the query and ingestion pipelines    *)
(*                                                                         *)
(* Text is a sequence of strings: single characters for the texts that the *)
(* program inspects (queries, file contents), literal pieces for the fixed *)
(* parts of the f-strings.  String concatenation is \o.                    *)
(*                                                                         *)
(* A worker is one thread of control serving one request at a time (one    *)
(* server process among several sharing ./storage, or one thread).  Its    *)
(* steps are the calls it makes to the file system and to the external     *)
(* providers; the code takes no lock anywhere, so steps of different       *)
(* workers interleave freely.  SpecSeq is the single-worker deployment     *)
(* (one event loop whose handlers never await): requests run one at a time *)
(* and no process is killed.                                               *)
(***************************************************************************)
EXTENDS Integers, Sequences, FiniteSets, TLC

VARIABLES
    files,                \* memory_path/<stem>.json : content of each file of memory_path
    collection,           \* the Chroma collection: sequence of stored records
    collections,          \* the names of the collections the Chroma client holds
    uuid_next,            \* source of fresh uuid4 values
    clock,                \* datetime.now() in ticks of one per append: the ordinal of the last append
    pc,                   \* position of each worker in the handler it runs
    req,                  \* the request a worker serves
    query_embedding,      \* RAGService.query local
    retrieved_docs,       \* RAGService.query local
    conversation_context, \* RAGService.query local
    context,              \* RAGService.query local
    user_message,         \* RAGService._generate_response local: the prompt
    answer,               \* RAGService.query local
    history,              \* MemoryService.add_interaction and get_history local
    fd,                   \* MemoryService._save_history: the file object of the with block
    total_documents,      \* get_stats: the count it has read and not yet returned
    results,              \* VectorStore.delete_by_source local: the ids collection.get returned
    documents,            \* RAGService.index_documents local
    chunks,               \* RAGService.index_documents local
    embeddings,           \* RAGService.index_documents local
    result,               \* what the caller of the handler receives
    calls,                \* the collaborators the current request has contacted, in order
    appended,             \* history variable: interactions appended per user id since its last clear
    before,               \* history variable: the user's file when the request started
    added,                \* history variable: records added to the collection since its last clear
    deleted               \* history variable: records deleted by source since the last clear

vars == <<files, collection, collections, uuid_next, clock, pc, req, query_embedding,
          retrieved_docs, conversation_context, context, user_message, answer,
          history, fd, documents, chunks, embeddings, result, calls, appended, before,
          added, deleted, total_documents, results>>

storeVars == <<files, appended>>
indexVars == <<collection, collections, uuid_next, added, deleted>>
queryLocals == <<query_embedding, retrieved_docs, conversation_context, context,
                 user_message, answer, history, fd>>
ingestLocals == <<documents, chunks, embeddings>>
otherLocals == <<total_documents, results>>

----------------------------------------------------------------------------
(* Bounds of the model *)

\* settings.max_conversation_history (a deployment setting, default 10)
max_history == 4
\* appends (clock ticks) explored per behaviour of SpecSeq
MaxAppends == 6
\* appends explored per behaviour of SpecCrash, where appends can be killed
MaxCrashAppends == 3
\* appends explored per behaviour of SpecMemory
MaxMemoryAppends == 3
\* appends explored per behaviour of SpecUsers
MaxUserAppends == 2
\* the greatest n_messages handed to get_conversation_context in SpecMemory
MaxContextMessages == 4
\* records ever added to the collection per behaviour of SpecServices
MaxServiceRecords == 3
\* the longest list of vectors handed to add_documents in SpecServices
MaxVectors == 2
\* the greatest n_results handed to similarity_search in SpecServices
MaxNResults == 3
\* the longest list of texts handed to generate_embeddings_batch in SpecText
MaxBatch == 2
\* the longest text handed to the text splitter in SpecText
MaxTextLen == 6
\* the longest list of documents handed to chunk_documents in SpecText
MaxDocuments == 2
\* appends explored per behaviour of Spec, where workers interleave
MaxConcurrentAppends == 2
\* records ever added to the collection per behaviour of SpecIngest
MaxRecords == 3
\* records ever added to the collection per behaviour of SpecApi
MaxApiRecords == 3
\* records ever added to the collection per behaviour of Spec
MaxConcurrentRecords == 1
\* settings.chunk_size and settings.chunk_overlap (deployment settings,
\* defaults 1000 and 200), in characters
chunk_size == 4
chunk_overlap == 1

(* Program constants *)

\* n_messages passed by RAGService.query to get_conversation_context
ContextMessages == 3
\* default of n_results in RAGService.query
DefaultNResults == 5
\* the characters of a passage that the query endpoint sends
ResponseChars == 200
\* settings.collection_name
collection_name == "rag_documents"

Users == {"u1", "u2"}
\* the user ids a request may carry: any string; "./u1" is one with a path in it
UserIds == Users \cup {"./u1"}
\* the users whose requests interleave in Spec: the races of the Conversation
\* Store are those of requests for one user id
ConcurrentUsers == {"u1"}
Workers == {"w1", "w2"}
SeqWorker == "w1"

\* Inputs: query texts, blank and not
Queries == { <<"\n", " ">>, <<" ", "b", "\n">> }
\* Completions the generation provider may return
Answers == { <<"x">>, <<"y">> }
\* Unit vectors the embedding provider may return
Embeddings == { <<1, 0>>, <<0, 1>> }

----------------------------------------------------------------------------
(* Text helpers: str.replace, str.strip, f-string formatting *)

Min(a, b) == IF a <= b THEN a ELSE b

\* str.isspace for the characters of the model
IsSpace(c) == c \in {" ", "\n", "\t"}

\* text.replace("\n", " ")
ReplaceNewlines(text) ==
    [i \in 1..Len(text) |-> IF text[i] = "\n" THEN " " ELSE text[i]]

RECURSIVE LStrip(_)
LStrip(text) ==
    IF text = <<>> THEN <<>>
    ELSE IF IsSpace(Head(text)) THEN LStrip(Tail(text)) ELSE text

RECURSIVE RStrip(_)
RStrip(text) ==
    IF text = <<>> THEN <<>>
    ELSE IF IsSpace(text[Len(text)]) THEN RStrip(SubSeq(text, 1, Len(text) - 1))
    ELSE text

\* str.strip()
StripNone(text) == text
Strip(text) == RStrip(LStrip(text))

\* text.replace("\n", " ").strip()
Normalize(text) == Strip(ReplaceNewlines(text))

\* str(i) for the small integers the model formats
IntToStr(i) ==
    CASE i = 0 -> "0" [] i = 1 -> "1" [] i = 2 -> "2" [] i = 3 -> "3"
      [] i = 4 -> "4" [] i = 5 -> "5" [] OTHER -> "n"

\* f"{score:.2f}" for the scores the model produces
FormatScore(s) ==
    CASE s = 1 -> "1.00" [] s = 0 -> "0.00" [] s = -1 -> "-1.00" [] OTHER -> "?"

\* Python's seq[-n:] for n >= 0 (seq[-0:] is seq[0:], the whole sequence)
PySuffixHead(seq, n) == SubSeq(seq, 1, Min(n, Len(seq)))
PySuffix(seq, n) ==
    IF n = 0 \/ n >= Len(seq) THEN seq
    ELSE SubSeq(seq, Len(seq) - n + 1, Len(seq))

----------------------------------------------------------------------------
(* MemoryService: the Conversation Store *)

\* _get_user_file: memory_path / f"{user_id}.json", as the stem of the file in
\* memory_path; Path's / drops the "." components of what is joined
_get_user_file(user_id) ==
    CASE user_id = "./u1" -> "u1" [] OTHER -> user_id

\* the files that the user ids of the model name
UserFiles == {_get_user_file(u) : u \in UserIds}

Absent == [kind |-> "absent"]
EmptyFile == [kind |-> "empty"]
PartialFile == [kind |-> "partial"]
JsonFile(h) == [kind |-> "json", data |-> h]

\* get_history line 78: user_file.exists()
exists(file) == file.kind # "absent"

\* get_history lines 79-80: open(user_file, 'r') and json.load, on the file as
\* it is when it is opened
load(file) ==
    IF file.kind = "json" THEN [ok |-> TRUE, history |-> file.data]
    ELSE IF file.kind = "absent" THEN [ok |-> FALSE, error |-> "FileNotFoundError"]
    ELSE [ok |-> FALSE, error |-> "JSONDecodeError"]

\* get_history lines 82-88: the record of a user who has no file
FreshHistory(user_id, now) ==
    [user_id |-> user_id, messages |-> <<>>, created_at |-> now, updated_at |-> now]

\* get_history on a file that nothing touches between its exists() and its
\* open(): the record of the file, a fresh record when there is no file, and
\* json.load's JSONDecodeError on an empty or cut file
get_history(file, user_id, now) ==
    IF exists(file) THEN load(file)
    ELSE [ok |-> TRUE, history |-> FreshHistory(user_id, now)]

\* len(retrieved_context) if retrieved_context else 0
RetrievedCountOffByOne(docs) == Len(docs) + 1
RetrievedCount(docs) == IF docs # <<>> THEN Len(docs) ELSE 0

\* the sliding window of add_interaction
SlidingWindowNone(messages) == messages
SlidingWindowOldest(messages) ==
    IF Len(messages) > max_history THEN SubSeq(messages, 1, max_history)
    ELSE messages
SlidingWindow(messages) ==
    IF Len(messages) > max_history THEN PySuffix(messages, max_history)
    ELSE messages

NewInteraction(now, user_text, assistant_text, docs) ==
    [timestamp |-> now, user |-> user_text, assistant |-> assistant_text,
     retrieved_docs |-> RetrievedCount(docs)]

\* history after lines 58-62 of add_interaction
WithInteraction(h, interaction) ==
    [h EXCEPT !.messages = SlidingWindow(Append(@, interaction))]

RECURSIVE RenderMessages(_)
RenderMessages(messages) ==
    IF messages = <<>> THEN <<>>
    ELSE <<"User: ">> \o Head(messages).user \o <<"\n">>
         \o <<"Assistant: ">> \o Head(messages).assistant \o <<"\n\n">>
         \o RenderMessages(Tail(messages))

\* get_conversation_context, given the history read
ConversationContext(h, n_messages) ==
    LET messages == PySuffix(h.messages, n_messages)
    IN  IF messages = <<>> THEN <<>>
        ELSE <<"Previous conversation:\n">> \o RenderMessages(messages)

\* get_all_users
get_all_users == {f \in UserFiles : files[f].kind # "absent"}

----------------------------------------------------------------------------
(* VectorStore *)

Dot(a, b) == a[1] * b[1] + a[2] * b[2]
\* cosine distance of unit vectors, as the collection is configured
Distance(a, b) == 1 - Dot(a, b)

\* collection.query of the index library, whose code is not part of the
\* repository: the contract of the Vector Index Client's query, the rankings
\* of the min(k, count) nearest records by ascending distance, ties in any
\* order
Rankings(coll, e, k) ==
    LET n == Min(k, Len(coll))
        idx == [1..n -> 1..Len(coll)]
    IN  { r \in idx :
            /\ \A i, j \in 1..n : i # j => r[i] # r[j]
            /\ \A i \in 1..(n - 1) :
                  Distance(coll[r[i]].embedding, e) <= Distance(coll[r[i + 1]].embedding, e)
            /\ \A i \in 1..n : \A m \in 1..Len(coll) :
                  (\A j \in 1..n : r[j] # m) =>
                      Distance(coll[r[i]].embedding, e) <= Distance(coll[m].embedding, e) }

\* a formatting that hands the distance on as the relevance
SearchResultsDistance(coll, e, r) ==
    [i \in 1..Len(r) |->
        [content |-> coll[r[i]].document,
         metadata |-> coll[r[i]].metadata,
         relevance_score |-> Distance(coll[r[i]].embedding, e)]]

\* a formatting that cuts each passage to its first character
SearchResultsTruncated(coll, e, r) ==
    [i \in 1..Len(r) |->
        [content |-> SubSeq(coll[r[i]].document, 1, 1),
         metadata |-> coll[r[i]].metadata,
         relevance_score |-> 1 - Distance(coll[r[i]].embedding, e)]]

\* similarity_search's formatting of one ranking
SearchResults(coll, e, r) ==
    [i \in 1..Len(r) |->
        [content |-> coll[r[i]].document,
         metadata |-> coll[r[i]].metadata,
         relevance_score |-> 1 - Distance(coll[r[i]].embedding, e)]]

\* an add that replaces what the collection held
add_documentsReplacing(coll, cs, es, first_id) ==
    [i \in 1..Len(cs) |->
        [id |-> first_id + i - 1, embedding |-> es[i],
         document |-> cs[i].content, metadata |-> cs[i].metadata]]

\* an add under ids made from the position in the batch, which replaces the
\* records that hold these ids
add_documentsUpserting(coll, cs, es, first_id) ==
    SelectSeq(coll, LAMBDA rec : rec.id > Len(cs))
    \o [i \in 1..Len(cs) |->
            [id |-> i, embedding |-> es[i],
             document |-> cs[i].content, metadata |-> cs[i].metadata]]

\* add_documents lines 56-67: one record per chunk under a fresh uuid
add_documents(coll, cs, es, first_id) ==
    coll \o [i \in 1..Len(cs) |->
                [id |-> first_id + i - 1, embedding |-> es[i],
                 document |-> cs[i].content, metadata |-> cs[i].metadata]]

\* vector_store.get_collection_count: collection.count()
get_collection_count(coll) == Len(coll)

----------------------------------------------------------------------------
(* DocumentProcessor *)

\* str.lower() on the suffixes of the model
Lower(suffix) ==
    CASE suffix = ".TXT" -> ".txt" [] suffix = ".PDF" -> ".pdf" [] OTHER -> suffix

SupportedExtensions == {".txt", ".pdf", ".docx"}

\* str(Path(documents_dir)) of the directory the index endpoint ingests,
\* "./data/documents"
DocumentsDir == "data/documents"

\* str(file_path) of a path that rglob yields: the directory's path, a
\* separator and the path below the directory
PathStr(directory, name) == directory \o "/" \o name

\* a file of the directory: its path, its name, its suffix, whether the
\* extractor of its type reads it without an exception, and the text it extracts
File(name, suffix, readable, content) ==
    [path |-> PathStr(DocumentsDir, name), name |-> name, suffix |-> suffix,
     readable |-> readable, content |-> content]

\* Inputs: the directories handed to index_documents, files in rglob order
NoDirectory == [exists |-> FALSE, files |-> <<>>]
EmptyDirectory == [exists |-> TRUE, files |-> <<>>]
BlankDirectory ==
    [exists |-> TRUE, files |-> << File("blank.txt", ".txt", TRUE, <<" ", "\n">>),
                                   File("bad.pdf", ".pdf", FALSE, <<>>),
                                   File("notes.md", ".md", TRUE, <<"a">>) >>]
MixedDirectory ==
    [exists |-> TRUE, files |-> << File("bad.pdf", ".pdf", FALSE, <<>>),
                                   File("a.TXT", ".TXT", TRUE, <<"a", "b", " ", "c", "d">>),
                                   File("empty.txt", ".txt", TRUE, <<>>) >>]
SmallDirectory ==
    [exists |-> TRUE, files |-> << File("c.txt", ".txt", TRUE, <<"e">>) >>]
Directories ==
    {NoDirectory, EmptyDirectory, BlankDirectory, MixedDirectory, SmallDirectory}

\* a loader that lets the first extraction error end the run
LoadFilesAborting(fs) ==
    IF \E i \in 1..Len(fs) : ~fs[i].readable THEN <<>>
    ELSE [i \in 1..Len(fs) |->
            [content |-> fs[i].content,
             metadata |-> [source |-> fs[i].path, filename |-> fs[i].name,
                           file_type |-> fs[i].suffix]]]

\* load_documents lines 47-65: the documents of the supported files that are
\* read without an exception and are not blank
RECURSIVE LoadFiles(_)
LoadFiles(fs) ==
    IF fs = <<>> THEN <<>>
    ELSE LET f == Head(fs)
         IN  (IF /\ Lower(f.suffix) \in SupportedExtensions
                 /\ f.readable
                 /\ Strip(f.content) # <<>>
              THEN << [content |-> f.content,
                       metadata |-> [source |-> f.path, filename |-> f.name,
                                     file_type |-> f.suffix]] >>
              ELSE <<>>)
             \o LoadFiles(Tail(fs))

(* RecursiveCharacterTextSplitter(chunk_size, chunk_overlap, length_function=len,
   separators=["\n\n", "\n", " ", ""]), with the library's defaults
   keep_separator=True and strip_whitespace=True *)

Separators == << <<"\n", "\n">>, <<"\n">>, <<" ">>, <<>> >>

\* the least position at or after i where sep occurs in text, 0 when none
RECURSIVE FindFrom(_, _, _)
FindFrom(text, sep, i) ==
    IF i + Len(sep) - 1 > Len(text) THEN 0
    ELSE IF SubSeq(text, i, i + Len(sep) - 1) = sep THEN i
    ELSE FindFrom(text, sep, i + 1)

\* re.split(sep, text): the pieces between the occurrences of a non-empty sep
RECURSIVE Pieces(_, _)
Pieces(text, sep) ==
    LET i == FindFrom(text, sep, 1)
    IN  IF i = 0 THEN <<text>>
        ELSE <<SubSeq(text, 1, i - 1)>>
             \o Pieces(SubSeq(text, i + Len(sep), Len(text)), sep)

RECURSIVE DropEmpty(_)
DropEmpty(ps) ==
    IF ps = <<>> THEN <<>>
    ELSE (IF Head(ps) = <<>> THEN <<>> ELSE <<Head(ps)>>) \o DropEmpty(Tail(ps))

\* _split_text_with_regex with keep_separator: each separator stays at the
\* head of the piece that follows it; empty pieces are dropped
SplitWithSeparator(text, sep) ==
    IF sep = <<>> THEN [i \in 1..Len(text) |-> <<text[i]>>]
    ELSE LET ps == Pieces(text, sep)
         IN  DropEmpty([i \in 1..Len(ps) |-> IF i = 1 THEN ps[1] ELSE sep \o ps[i]])

RECURSIVE Flatten(_)
Flatten(ps) == IF ps = <<>> THEN <<>> ELSE Head(ps) \o Flatten(Tail(ps))

\* _join_docs with separator "": the joined text stripped, dropped when empty
JoinDocs(current) ==
    LET text == Strip(Flatten(current))
    IN  IF text = <<>> THEN <<>> ELSE <<text>>

\* the while loop of _merge_splits: pop pieces from the front of the window
RECURSIVE PopWindow(_, _, _)
PopWindow(current, total, len) ==
    IF total > chunk_overlap \/ (total + len > chunk_size /\ total > 0)
    THEN PopWindow(Tail(current), total - Len(Head(current)), len)
    ELSE [current |-> current, total |-> total]

\* _merge_splits with separator ""
RECURSIVE MergeFrom(_, _, _, _, _)
MergeFrom(splits, k, docs, current, total) ==
    IF k > Len(splits) THEN docs \o JoinDocs(current)
    ELSE LET d == splits[k]
         IN  IF total + Len(d) > chunk_size /\ current # <<>>
             THEN LET popped == PopWindow(current, total, Len(d))
                  IN  MergeFrom(splits, k + 1, docs \o JoinDocs(current),
                                Append(popped.current, d), popped.total + Len(d))
             ELSE MergeFrom(splits, k + 1, docs, Append(current, d), total + Len(d))

MergeSplits(splits) == MergeFrom(splits, 1, <<>>, <<>>, 0)

\* the separator _split_text picks: the first that is "" or occurs in the text
RECURSIVE PickSeparator(_, _, _)
PickSeparator(text, seps, i) ==
    IF i >= Len(seps) THEN Len(seps)
    ELSE IF seps[i] = <<>> \/ FindFrom(text, seps[i], 1) # 0 THEN i
    ELSE PickSeparator(text, seps, i + 1)

\* _split_text
RECURSIVE SplitText(_, _)
RECURSIVE SplitPieces(_, _, _, _, _)
SplitPieces(splits, k, good, final, rest) ==
    IF k > Len(splits)
    THEN final \o (IF good # <<>> THEN MergeSplits(good) ELSE <<>>)
    ELSE LET s == splits[k]
         IN  IF Len(s) < chunk_size
             THEN SplitPieces(splits, k + 1, Append(good, s), final, rest)
             ELSE SplitPieces(splits, k + 1, <<>>,
                     final \o (IF good # <<>> THEN MergeSplits(good) ELSE <<>>)
                           \o (IF rest = <<>> THEN <<s>> ELSE SplitText(s, rest)),
                     rest)

SplitText(text, seps) ==
    LET i == PickSeparator(text, seps, 1)
        sep == seps[i]
        rest == IF sep = <<>> THEN <<>> ELSE SubSeq(seps, i + 1, Len(seps))
    IN  SplitPieces(SplitWithSeparator(text, sep), 1, <<>>, <<>>, rest)

\* text_splitter.split_text
split_text(text) == SplitText(text, Separators)

\* dict.copy(): a new dictionary with the items of d
Copy(d) == [key \in DOMAIN d |-> d[key]]

\* d[key] = value on a dictionary
SetItem(d, key, value) ==
    [k \in DOMAIN d \cup {key} |-> IF k = key THEN value ELSE d[k]]

\* the dictionary after the writes of chunk_id and total_chunks for the
\* chunks 0..n-1, each write made into the same dictionary
RECURSIVE WrittenThrough(_, _, _)
WrittenThrough(d, n, total) ==
    IF n = 0 THEN d
    ELSE SetItem(SetItem(WrittenThrough(d, n - 1, total), "chunk_id", n - 1),
                 "total_chunks", total)

\* a chunker that writes chunk_id and total_chunks into the document's own
\* metadata dictionary and hands that one dictionary to every chunk: the
\* chunks and the document show the index written last
RECURSIVE chunk_documentsShared(_)
chunk_documentsShared(docs) ==
    IF docs = <<>> THEN [chunks |-> <<>>, documents |-> <<>>]
    ELSE LET doc == Head(docs)
             text_chunks == split_text(doc.content)
             shared == WrittenThrough(doc.metadata, Len(text_chunks), Len(text_chunks))
             rest == chunk_documentsShared(Tail(docs))
         IN  [chunks |-> [i \in 1..Len(text_chunks) |->
                            [content |-> text_chunks[i], metadata |-> shared]]
                         \o rest.chunks,
              documents |-> <<[doc EXCEPT !.metadata = shared]>> \o rest.documents]

\* chunk_documents lines 116-134: the chunks it returns and the documents as
\* the call leaves them.  Line 124 copies the document's metadata for each
\* chunk and lines 125-126 write into the copy; no line writes into doc
RECURSIVE chunk_documents(_)
chunk_documents(docs) ==
    IF docs = <<>> THEN [chunks |-> <<>>, documents |-> <<>>]
    ELSE LET doc == Head(docs)
             text_chunks == split_text(doc.content)
             rest == chunk_documents(Tail(docs))
         IN  [chunks |-> [i \in 1..Len(text_chunks) |->
                            [content |-> text_chunks[i],
                             metadata |-> SetItem(SetItem(Copy(doc.metadata),
                                                          "chunk_id", i - 1),
                                                  "total_chunks", Len(text_chunks))]]
                         \o rest.chunks,
              documents |-> <<doc>> \o rest.documents]

\* the chunks a run over the directory hands to the index
ChunksOf(dir) == chunk_documents(LoadFiles(dir.files)).chunks

----------------------------------------------------------------------------
(* RAGService: prompt assembly *)

ContextHeader == <<"Relevant information from documents:\n\n">>

RECURSIVE RenderDocuments(_, _)
RenderDocuments(docs, i) ==
    IF i > Len(docs) THEN <<>>
    ELSE <<"[Document ", IntToStr(i), "] (Source: ", docs[i].metadata.filename,
           ", Relevance: ", FormatScore(docs[i].relevance_score), ")\n">>
         \o docs[i].content \o <<"\n\n">>
         \o RenderDocuments(docs, i + 1)

\* _build_context
BuildContext(docs) == ContextHeader \o RenderDocuments(docs, 1)

\* the user message of _generate_response
UserMessage(query, ctx, conversation_history) ==
    conversation_history
    \o <<"\n\nContext from knowledge base:\n">> \o ctx
    \o <<"\n\nCurrent question: ">> \o query
    \o <<"\n\nPlease provide a helpful answer based on the context above.">>

----------------------------------------------------------------------------
(* Workers and requests *)

NoRequest == [op |-> "none"]
NoResult == [status |-> "none"]
NoHistory == [user_id |-> "", messages |-> <<>>, created_at |-> 0, updated_at |-> 0]
Failure(stage, error) == [status |-> "error", stage |-> stage, error |-> error]

\* the pipeline positions at which a query has not yet read the clock for its
\* interaction
QueryPending ==
    {"q_embed", "q_search", "q_context", "q_context_open", "q_generate", "q_add",
     "q_add_open", "q_add_fresh", "q_add_stamp"}

\* queries in flight that may still append
PendingAppends == Cardinality({w \in Workers : pc[w] \in QueryPending})

\* no request is being served
InitWorkers ==
    /\ pc = [w \in Workers |-> "idle"]
    /\ req = [w \in Workers |-> NoRequest]
    /\ query_embedding = [w \in Workers |-> <<>>]
    /\ retrieved_docs = [w \in Workers |-> <<>>]
    /\ conversation_context = [w \in Workers |-> <<>>]
    /\ context = [w \in Workers |-> <<>>]
    /\ user_message = [w \in Workers |-> <<>>]
    /\ answer = [w \in Workers |-> <<>>]
    /\ history = [w \in Workers |-> NoHistory]
    /\ fd = [w \in Workers |-> "closed"]
    /\ total_documents = [w \in Workers |-> 0]
    /\ results = [w \in Workers |-> <<>>]
    /\ documents = [w \in Workers |-> <<>>]
    /\ chunks = [w \in Workers |-> <<>>]
    /\ embeddings = [w \in Workers |-> <<>>]
    /\ result = [w \in Workers |-> NoResult]
    /\ calls = [w \in Workers |-> <<>>]
    /\ before = [w \in Workers |-> Absent]

\* RAGService() over an empty ./storage
Init ==
    /\ files = [f \in UserFiles |-> Absent]
    /\ appended = [u \in UserIds |-> <<>>]
    /\ clock = 0
    /\ collection = <<>>
    /\ collections = {collection_name}
    /\ uuid_next = 1
    /\ added = 0
    /\ deleted = 0
    /\ InitWorkers

\* collections that earlier ingestion runs have left in ./storage/chroma_db
SeedCollections ==
    { <<>> } \cup
    { LET cs == ChunksOf(dir)
      IN  add_documents(<<>>, cs,
                        [i \in 1..Len(cs) |-> IF i = 1 THEN <<1, 0>> ELSE <<0, 1>>], 1) :
        dir \in {SmallDirectory, MixedDirectory} }

\* RAGService() over a ./storage whose index earlier runs have filled
InitSeq ==
    /\ files = [f \in UserFiles |-> Absent]
    /\ appended = [u \in UserIds |-> <<>>]
    /\ clock = 0
    /\ \E seed \in SeedCollections :
            /\ collection = seed
            /\ uuid_next = Len(seed) + 1
            /\ added = Len(seed)
    /\ collections = {collection_name}
    /\ deleted = 0
    /\ InitWorkers

\* the client holds no collection of the name, after clear_collection has
\* deleted it and until a create_collection or a get_or_create_collection
\* succeeds: every call on self.collection raises
CollectionMissing == collection_name \notin collections

\* an exception leaves the handler: the caller receives the error
Raise(w, stage, error) ==
    /\ pc' = [pc EXCEPT ![w] = "failed"]
    /\ result' = [result EXCEPT ![w] = Failure(stage, error)]

Contact(w, service) == calls' = [calls EXCEPT ![w] = Append(@, service)]

----------------------------------------------------------------------------
(* RAGService.query *)

\* the router hands (user_id, query) to rag_service.query
StartQuery(w, u, q, limit) ==
    /\ pc[w] = "idle"
    /\ clock + PendingAppends < limit
    /\ pc' = [pc EXCEPT ![w] = "q_embed"]
    /\ req' = [req EXCEPT ![w] = [op |-> "query", user_id |-> u, query |-> q,
                                  n_results |-> DefaultNResults]]
    /\ before' = [before EXCEPT ![w] = files[_get_user_file(u)]]
    /\ calls' = [calls EXCEPT ![w] = <<>>]
    /\ result' = [result EXCEPT ![w] = NoResult]
    /\ UNCHANGED <<storeVars, indexVars, clock, queryLocals, ingestLocals>>
    /\ UNCHANGED otherLocals

\* Step 1: embedding_service.generate_embedding(query)
QueryEmbed(w) ==
    /\ pc[w] = "q_embed"
    /\ IF Normalize(req[w].query) = <<>>
       THEN /\ Raise(w, "embed", "EmptyInput")
            /\ UNCHANGED <<calls, query_embedding>>
       ELSE /\ Contact(w, "embedding")
            /\ \/ \E e \in Embeddings :
                    /\ query_embedding' = [query_embedding EXCEPT ![w] = e]
                    /\ pc' = [pc EXCEPT ![w] = "q_search"]
                    /\ UNCHANGED result
               \/ /\ Raise(w, "embed", "ProviderError")
                  /\ UNCHANGED query_embedding
    /\ UNCHANGED <<storeVars, indexVars, clock, req, retrieved_docs,
                   conversation_context, context, user_message, answer, history,
                   fd, ingestLocals, before>>
    /\ UNCHANGED otherLocals

\* Step 2: vector_store.similarity_search(query_embedding, n_results)
QuerySearch(w) ==
    /\ pc[w] = "q_search"
    /\ Contact(w, "index")
    /\ \/ /\ ~CollectionMissing
          /\ \E r \in Rankings(collection, query_embedding[w], req[w].n_results) :
                /\ retrieved_docs' = [retrieved_docs EXCEPT ![w] =
                                        SearchResults(collection, query_embedding[w], r)]
                /\ pc' = [pc EXCEPT ![w] = "q_context"]
                /\ UNCHANGED result
       \/ /\ Raise(w, "search", "ProviderError")
          /\ UNCHANGED retrieved_docs
    /\ UNCHANGED <<storeVars, indexVars, clock, req, query_embedding,
                   conversation_context, context, user_message, answer, history,
                   fd, ingestLocals, before>>
    /\ UNCHANGED otherLocals

\* Step 3: memory_service.get_conversation_context(user_id, n_messages=3)
\* get_history line 78, exists(): without a file the fresh record is rendered
QueryContext(w) ==
    /\ pc[w] = "q_context"
    /\ Contact(w, "store")
    /\ IF exists(files[_get_user_file(req[w].user_id)])
       THEN /\ pc' = [pc EXCEPT ![w] = "q_context_open"]
            /\ UNCHANGED conversation_context
       ELSE /\ conversation_context' = [conversation_context EXCEPT ![w] =
                    ConversationContext(FreshHistory(req[w].user_id, clock),
                                        ContextMessages)]
            /\ pc' = [pc EXCEPT ![w] = "q_generate"]
    /\ UNCHANGED <<storeVars, indexVars, clock, req, query_embedding, retrieved_docs,
                   context, user_message, answer, history, fd, ingestLocals, before,
                   result>>
    /\ UNCHANGED otherLocals

\* get_history lines 79-80, open() and json.load, then the rendering of
\* get_conversation_context
QueryContextOpen(w) ==
    /\ pc[w] = "q_context_open"
    /\ LET got == load(files[_get_user_file(req[w].user_id)])
       IN  IF got.ok
           THEN /\ conversation_context' = [conversation_context EXCEPT ![w] =
                        ConversationContext(got.history, ContextMessages)]
                /\ pc' = [pc EXCEPT ![w] = "q_generate"]
                /\ UNCHANGED result
           ELSE /\ Raise(w, "context", got.error)
                /\ UNCHANGED conversation_context
    /\ UNCHANGED <<storeVars, indexVars, clock, req, query_embedding, retrieved_docs,
                   context, user_message, answer, history, fd, ingestLocals, before,
                   calls>>
    /\ UNCHANGED otherLocals

\* the generation provider fails: the exception leaves query
GenerateFailsSaving(w) ==
    /\ Raise(w, "generate", "ProviderError")
    /\ files' = [files EXCEPT ![_get_user_file(req[w].user_id)] = JsonFile(
                    [user_id |-> req[w].user_id,
                     messages |-> <<NewInteraction(clock, req[w].query, <<>>, <<>>)>>,
                     created_at |-> clock, updated_at |-> clock])]
    /\ UNCHANGED <<answer, appended>>
GenerateFails(w) ==
    /\ Raise(w, "generate", "ProviderError")
    /\ UNCHANGED <<answer, storeVars>>

\* Steps 4 and 5: _build_context, then _generate_response
QueryGenerate(w) ==
    /\ pc[w] = "q_generate"
    /\ context' = [context EXCEPT ![w] = BuildContext(retrieved_docs[w])]
    /\ user_message' = [user_message EXCEPT ![w] =
            UserMessage(req[w].query, context'[w], conversation_context[w])]
    /\ Contact(w, "generation")
    /\ \/ \E a \in Answers :
            /\ answer' = [answer EXCEPT ![w] = a]
            /\ pc' = [pc EXCEPT ![w] = "q_add"]
            /\ UNCHANGED <<result, storeVars>>
       \/ GenerateFails(w)
    /\ UNCHANGED <<indexVars, clock, req, query_embedding, retrieved_docs,
                   conversation_context, history, fd, ingestLocals, before>>
    /\ UNCHANGED otherLocals

\* Step 6, add_interaction line 49: get_history's exists()
QueryAdd(w) ==
    /\ pc[w] = "q_add"
    /\ Contact(w, "store")
    /\ IF exists(files[_get_user_file(req[w].user_id)])
       THEN pc' = [pc EXCEPT ![w] = "q_add_open"]
       ELSE pc' = [pc EXCEPT ![w] = "q_add_fresh"]
    /\ UNCHANGED <<storeVars, indexVars, clock, req, query_embedding, retrieved_docs,
                   conversation_context, context, user_message, answer, history,
                   fd, ingestLocals, before, result>>
    /\ UNCHANGED otherLocals

\* get_history lines 79-80 inside add_interaction: open() and json.load
QueryAddOpen(w) ==
    /\ pc[w] = "q_add_open"
    /\ LET got == load(files[_get_user_file(req[w].user_id)])
       IN  IF got.ok
           THEN /\ history' = [history EXCEPT ![w] = got.history]
                /\ pc' = [pc EXCEPT ![w] = "q_add_stamp"]
                /\ UNCHANGED result
           ELSE /\ Raise(w, "save", got.error)
                /\ UNCHANGED history
    /\ UNCHANGED <<storeVars, indexVars, clock, req, query_embedding, retrieved_docs,
                   conversation_context, context, user_message, answer, fd,
                   ingestLocals, before, calls>>
    /\ UNCHANGED otherLocals

\* get_history lines 82-88 inside add_interaction: the fresh record, made once
\* exists() has returned.  Its created_at is the clock as line 86 reads it; what
\* line 87 reads into updated_at is overwritten at line 64 before anything
\* looks at it.
QueryAddFresh(w) ==
    /\ pc[w] = "q_add_fresh"
    /\ history' = [history EXCEPT ![w] = FreshHistory(req[w].user_id, clock)]
    /\ pc' = [pc EXCEPT ![w] = "q_add_stamp"]
    /\ UNCHANGED <<storeVars, indexVars, clock, req, query_embedding, retrieved_docs,
                   conversation_context, context, user_message, answer, fd,
                   ingestLocals, before, calls, result>>
    /\ UNCHANGED otherLocals

\* add_interaction lines 51-62: the interaction, stamped with the clock as
\* line 52 reads it, is appended and the window slides.  This read is the tick
\* of the append.
QueryAddStamp(w) ==
    /\ pc[w] = "q_add_stamp"
    /\ clock' = clock + 1
    /\ history' = [history EXCEPT ![w] =
            WithInteraction(@, NewInteraction(clock', req[w].query, answer[w],
                                              retrieved_docs[w]))]
    /\ pc' = [pc EXCEPT ![w] = "q_add_updated"]
    /\ UNCHANGED <<storeVars, indexVars, req, query_embedding, retrieved_docs,
                   conversation_context, context, user_message, answer, fd,
                   ingestLocals, before, calls, result>>
    /\ UNCHANGED otherLocals

\* add_interaction line 64: updated_at is the clock as this line reads it
QueryAddUpdated(w) ==
    /\ pc[w] = "q_add_updated"
    /\ history' = [history EXCEPT ![w].updated_at = clock]
    /\ pc' = [pc EXCEPT ![w] = "q_open"]
    /\ UNCHANGED <<storeVars, indexVars, clock, req, query_embedding, retrieved_docs,
                   conversation_context, context, user_message, answer, fd,
                   ingestLocals, before, calls, result>>
    /\ UNCHANGED otherLocals

\* _save_history line 119: open(user_file, 'w') creates or truncates the file
QuerySaveOpen(w) ==
    /\ pc[w] = "q_open"
    /\ files' = [files EXCEPT ![_get_user_file(req[w].user_id)] = EmptyFile]
    /\ fd' = [fd EXCEPT ![w] = "open"]
    /\ pc' = [pc EXCEPT ![w] = "q_write"]
    /\ UNCHANGED <<appended, indexVars, clock, req, query_embedding, retrieved_docs,
                   conversation_context, context, user_message, answer, history,
                   ingestLocals, result, calls, before>>
    /\ UNCHANGED otherLocals

\* len(user_id) for the user ids of the model
IdLen(user_id) == CASE user_id = "./u1" -> 4 [] user_id = "" -> 0 [] OTHER -> 2

\* the length of a text inside a JSON string: "\n" is written as two characters
EscapedLen(text) == Len(text) + Cardinality({i \in 1..Len(text) : text[i] = "\n"})

\* the length of the JSON text of the messages, indent=2, each with an
\* isoformat timestamp and a retrieved count of one digit
RECURSIVE MessagesSize(_)
MessagesSize(messages) ==
    IF messages = <<>> THEN 0
    ELSE 129 + EscapedLen(Head(messages).user) + EscapedLen(Head(messages).assistant)
         + MessagesSize(Tail(messages))

\* the length of json.dump(h, indent=2)
JsonSize(h) ==
    129 + IdLen(h.user_id) + (IF h.messages = <<>> THEN 0 ELSE 2)
    + MessagesSize(h.messages)

\* what the file holds once json.dump has written h through a descriptor opened
\* on it: the bytes of h from offset 0, over whatever another writer has put
\* there since the open truncated it
Written(file, h) ==
    IF file.kind = "empty" THEN {JsonFile(h)}
    ELSE IF file.kind = "json"
    THEN IF JsonSize(h) >= JsonSize(file.data)
         THEN {JsonFile(h)} ELSE {PartialFile}
    ELSE {JsonFile(h), PartialFile}

\* main.py lines 101-113: the QueryResponse the endpoint builds from what query
\* returns, each passage cut to its first ResponseChars characters with "..."
\* put after it
QueryResponse(user_id, answer_text, docs, now) ==
    [answer |-> answer_text,
     retrieved_documents |->
        [i \in 1..Len(docs) |->
            [content |-> SubSeq(docs[i].content, 1, Min(ResponseChars, Len(docs[i].content)))
                         \o <<"...">>,
             metadata |-> docs[i].metadata,
             relevance_score |-> docs[i].relevance_score]],
     conversation_id |-> user_id,
     timestamp |-> now]

\* _save_history line 120: json.dump, then the with block closes the file and
\* query returns (answer, retrieved_docs)
QuerySaveWrite(w) ==
    /\ pc[w] = "q_write"
    /\ LET u == req[w].user_id
       IN  /\ IF fd[w] = "open"
              THEN \E f \in Written(files[_get_user_file(u)], history[w]) :
                        files' = [files EXCEPT ![_get_user_file(u)] = f]
              ELSE UNCHANGED files
           /\ appended' = [appended EXCEPT ![u] =
                    Append(@, history[w].messages[Len(history[w].messages)])]
    /\ fd' = [fd EXCEPT ![w] = "closed"]
    /\ pc' = [pc EXCEPT ![w] = "q_respond"]
    /\ UNCHANGED <<indexVars, clock, req, query_embedding, retrieved_docs,
                   conversation_context, context, user_message, answer, history,
                   ingestLocals, calls, before, result>>
    /\ UNCHANGED otherLocals

\* main.py lines 101-115: the endpoint builds its response from what query has
\* returned, with the clock as line 112 reads it
QueryRespond(w) ==
    /\ pc[w] = "q_respond"
    /\ pc' = [pc EXCEPT ![w] = "done"]
    /\ result' = [result EXCEPT ![w] =
                    [status |-> "ok", answer |-> answer[w],
                     retrieved_docs |-> retrieved_docs[w],
                     response |-> QueryResponse(req[w].user_id, answer[w],
                                                retrieved_docs[w], clock)]]
    /\ UNCHANGED <<storeVars, indexVars, clock, req, queryLocals, ingestLocals,
                   calls, before>>
    /\ UNCHANGED otherLocals

----------------------------------------------------------------------------
(* The other handlers of the Conversation Store *)

\* a get that saves a fresh record for a user without one
GetHistorySaving(w, u) ==
    /\ pc[w] = "idle"
    /\ req' = [req EXCEPT ![w] = [op |-> "get", user_id |-> u]]
    /\ before' = [before EXCEPT ![w] = files[_get_user_file(u)]]
    /\ calls' = [calls EXCEPT ![w] = <<"store">>]
    /\ result' = [result EXCEPT ![w] = NoResult]
    /\ IF exists(files[_get_user_file(u)])
       THEN /\ pc' = [pc EXCEPT ![w] = "g_open"]
            /\ UNCHANGED files
       ELSE /\ pc' = [pc EXCEPT ![w] = "g_created"]
            /\ files' = [files EXCEPT ![_get_user_file(u)] =
                            JsonFile(FreshHistory(u, clock))]
    /\ UNCHANGED <<appended, indexVars, clock, queryLocals, ingestLocals>>
    /\ UNCHANGED otherLocals

\* GET /history/{user_id}: memory_service.get_history, line 78: exists()
GetHistory(w, u) ==
    /\ pc[w] = "idle"
    /\ req' = [req EXCEPT ![w] = [op |-> "get", user_id |-> u]]
    /\ before' = [before EXCEPT ![w] = files[_get_user_file(u)]]
    /\ calls' = [calls EXCEPT ![w] = <<"store">>]
    /\ result' = [result EXCEPT ![w] = NoResult]
    /\ IF exists(files[_get_user_file(u)])
       THEN pc' = [pc EXCEPT ![w] = "g_open"]
       ELSE pc' = [pc EXCEPT ![w] = "g_created"]
    /\ UNCHANGED <<storeVars, indexVars, clock, queryLocals, ingestLocals>>
    /\ UNCHANGED otherLocals

\* get_history lines 79-80: open() and json.load
GetHistoryOpen(w) ==
    /\ pc[w] = "g_open"
    /\ LET got == load(files[_get_user_file(req[w].user_id)])
       IN  IF got.ok
           THEN /\ pc' = [pc EXCEPT ![w] = "done"]
                /\ result' = [result EXCEPT ![w] =
                                [status |-> "ok", history |-> got.history]]
           ELSE Raise(w, "get", got.error)
    /\ UNCHANGED <<storeVars, indexVars, clock, req, queryLocals, ingestLocals,
                   calls, before>>
    /\ UNCHANGED otherLocals

\* get_history lines 83-86: the fresh record up to created_at, the clock as
\* line 86 reads it
GetHistoryCreated(w) ==
    /\ pc[w] = "g_created"
    /\ history' = [history EXCEPT ![w] = FreshHistory(req[w].user_id, clock)]
    /\ pc' = [pc EXCEPT ![w] = "g_updated"]
    /\ UNCHANGED <<storeVars, indexVars, clock, req, query_embedding, retrieved_docs,
                   conversation_context, context, user_message, answer, fd,
                   ingestLocals, calls, before, result>>
    /\ UNCHANGED otherLocals

\* get_history lines 87-88: updated_at, the clock as line 87 reads it, and the
\* return of the fresh record
GetHistoryUpdated(w) ==
    /\ pc[w] = "g_updated"
    /\ pc' = [pc EXCEPT ![w] = "done"]
    /\ result' = [result EXCEPT ![w] =
                    [status |-> "ok",
                     history |-> [history[w] EXCEPT !.updated_at = clock]]]
    /\ UNCHANGED <<storeVars, indexVars, clock, req, queryLocals, ingestLocals,
                   calls, before>>
    /\ UNCHANGED otherLocals

\* a clear that unlinks without looking whether the file is there
ClearHistoryStrict(w, u) ==
    /\ pc[w] = "idle"
    /\ req' = [req EXCEPT ![w] = [op |-> "clear", user_id |-> u]]
    /\ before' = [before EXCEPT ![w] = files[_get_user_file(u)]]
    /\ calls' = [calls EXCEPT ![w] = <<"store">>]
    /\ pc' = [pc EXCEPT ![w] = "cl_unlink"]
    /\ result' = [result EXCEPT ![w] = NoResult]
    /\ UNCHANGED <<storeVars, indexVars, clock, queryLocals, ingestLocals>>
    /\ UNCHANGED otherLocals

\* DELETE /history/{user_id}: memory_service.clear_history, line 125:
\* exists(); without a file there is nothing to do
ClearHistory(w, u) ==
    /\ pc[w] = "idle"
    /\ req' = [req EXCEPT ![w] = [op |-> "clear", user_id |-> u]]
    /\ before' = [before EXCEPT ![w] = files[_get_user_file(u)]]
    /\ calls' = [calls EXCEPT ![w] = <<"store">>]
    /\ IF exists(files[_get_user_file(u)])
       THEN /\ pc' = [pc EXCEPT ![w] = "cl_unlink"]
            /\ result' = [result EXCEPT ![w] = NoResult]
            /\ UNCHANGED appended
       ELSE /\ pc' = [pc EXCEPT ![w] = "done"]
            /\ result' = [result EXCEPT ![w] = [status |-> "ok"]]
            /\ appended' = [appended EXCEPT ![u] = <<>>]
    /\ UNCHANGED <<files, indexVars, clock, queryLocals, ingestLocals>>
    /\ UNCHANGED otherLocals

\* clear_history line 126: unlink(), which raises when the file is gone.  A
\* descriptor another worker holds on the file outlives the unlink; what is
\* written through it is lost when it is closed.
ClearHistoryUnlink(w) ==
    /\ pc[w] = "cl_unlink"
    /\ LET u == req[w].user_id
       IN  IF exists(files[_get_user_file(u)])
           THEN /\ files' = [files EXCEPT ![_get_user_file(u)] = Absent]
                /\ appended' = [appended EXCEPT ![u] = <<>>]
                /\ fd' = [v \in Workers |->
                            IF /\ fd[v] = "open"
                               /\ _get_user_file(req[v].user_id) = _get_user_file(u)
                            THEN "orphaned" ELSE fd[v]]
                /\ pc' = [pc EXCEPT ![w] = "done"]
                /\ result' = [result EXCEPT ![w] = [status |-> "ok"]]
           ELSE /\ Raise(w, "clear", "FileNotFoundError")
                /\ UNCHANGED <<files, appended, fd>>
    /\ UNCHANGED <<indexVars, clock, req, query_embedding, retrieved_docs,
                   conversation_context, context, user_message, answer, history,
                   ingestLocals, calls, before>>
    /\ UNCHANGED otherLocals

\* GET /stats, the first entry of the answer: vector_store.get_collection_count();
\* an exception of the index is answered before the store is looked at
GetStats(w) ==
    /\ pc[w] = "idle"
    /\ req' = [req EXCEPT ![w] = [op |-> "stats"]]
    /\ calls' = [calls EXCEPT ![w] = <<"index">>]
    /\ \/ /\ ~CollectionMissing
          /\ total_documents' = [total_documents EXCEPT ![w] =
                                    get_collection_count(collection)]
          /\ pc' = [pc EXCEPT ![w] = "s_users"]
          /\ result' = [result EXCEPT ![w] = NoResult]
       \/ /\ Raise(w, "stats", "ProviderError")
          /\ UNCHANGED total_documents
    /\ UNCHANGED <<storeVars, indexVars, clock, queryLocals, ingestLocals, before,
                   results>>

\* GET /stats, the second entry: len(memory_service.get_all_users())
GetStatsUsers(w) ==
    /\ pc[w] = "s_users"
    /\ Contact(w, "store")
    /\ pc' = [pc EXCEPT ![w] = "done"]
    /\ result' = [result EXCEPT ![w] =
                    [status |-> "ok",
                     total_documents |-> total_documents[w],
                     total_users |-> Cardinality(get_all_users)]]
    /\ UNCHANGED <<storeVars, indexVars, clock, req, queryLocals, ingestLocals,
                   before>>
    /\ UNCHANGED otherLocals

\* memory_service.get_conversation_context(user_id, n_messages)
GetConversationContext(w, u, n) ==
    /\ pc[w] = "idle"
    /\ req' = [req EXCEPT ![w] = [op |-> "context", user_id |-> u, n_messages |-> n]]
    /\ before' = [before EXCEPT ![w] = files[_get_user_file(u)]]
    /\ calls' = [calls EXCEPT ![w] = <<"store">>]
    /\ IF exists(files[_get_user_file(u)])
       THEN /\ pc' = [pc EXCEPT ![w] = "c_open"]
            /\ result' = [result EXCEPT ![w] = NoResult]
       ELSE /\ pc' = [pc EXCEPT ![w] = "done"]
            /\ result' = [result EXCEPT ![w] =
                            [status |-> "ok",
                             context |-> ConversationContext(FreshHistory(u, clock), n)]]
    /\ UNCHANGED <<storeVars, indexVars, clock, queryLocals, ingestLocals>>
    /\ UNCHANGED otherLocals

\* get_history lines 79-80 inside get_conversation_context, then its rendering
GetConversationContextOpen(w) ==
    /\ pc[w] = "c_open"
    /\ LET got == load(files[_get_user_file(req[w].user_id)])
       IN  IF got.ok
           THEN /\ pc' = [pc EXCEPT ![w] = "done"]
                /\ result' = [result EXCEPT ![w] =
                                [status |-> "ok",
                                 context |-> ConversationContext(got.history,
                                                                 req[w].n_messages)]]
           ELSE Raise(w, "context", got.error)
    /\ UNCHANGED <<storeVars, indexVars, clock, req, queryLocals, ingestLocals,
                   calls, before>>
    /\ UNCHANGED otherLocals

\* the response is sent: the worker is free again, its locals are gone
Reset(w) ==
    /\ pc' = [pc EXCEPT ![w] = "idle"]
    /\ req' = [req EXCEPT ![w] = NoRequest]
    /\ query_embedding' = [query_embedding EXCEPT ![w] = <<>>]
    /\ retrieved_docs' = [retrieved_docs EXCEPT ![w] = <<>>]
    /\ conversation_context' = [conversation_context EXCEPT ![w] = <<>>]
    /\ context' = [context EXCEPT ![w] = <<>>]
    /\ user_message' = [user_message EXCEPT ![w] = <<>>]
    /\ answer' = [answer EXCEPT ![w] = <<>>]
    /\ history' = [history EXCEPT ![w] = NoHistory]
    /\ fd' = [fd EXCEPT ![w] = "closed"]
    /\ total_documents' = [total_documents EXCEPT ![w] = 0]
    /\ results' = [results EXCEPT ![w] = <<>>]
    /\ documents' = [documents EXCEPT ![w] = <<>>]
    /\ chunks' = [chunks EXCEPT ![w] = <<>>]
    /\ embeddings' = [embeddings EXCEPT ![w] = <<>>]
    /\ result' = [result EXCEPT ![w] = NoResult]
    /\ calls' = [calls EXCEPT ![w] = <<>>]
    /\ before' = [before EXCEPT ![w] = Absent]

Respond(w) ==
    /\ pc[w] \in {"done", "failed"}
    /\ Reset(w)
    /\ UNCHANGED <<storeVars, indexVars, clock>>

\* the process serving the request is killed; what json.dump had not flushed
\* is lost, what it had flushed stays.  The process that takes its place
\* constructs the services anew: VectorStore.__init__ gets the collection or
\* creates it
Crash(w) ==
    /\ pc[w] \notin {"idle", "done", "failed"}
    /\ IF pc[w] = "q_write" /\ fd[w] = "open"
       THEN \E f \in {files[_get_user_file(req[w].user_id)], PartialFile} :
                files' = [files EXCEPT ![_get_user_file(req[w].user_id)] = f]
       ELSE UNCHANGED files
    /\ Reset(w)
    /\ collections' = collections \cup {collection_name}
    /\ UNCHANGED <<appended, collection, uuid_next, added, deleted, clock>>

----------------------------------------------------------------------------
(* RAGService.index_documents *)

IngestPending == {"i_load", "i_chunk", "i_embed", "i_store"}

RECURSIVE PendingRecords(_)
PendingRecords(ws) ==
    IF ws = {} THEN 0
    ELSE LET w == CHOOSE v \in ws : TRUE
         IN  (IF pc[w] \in IngestPending THEN Len(ChunksOf(req[w].directory)) ELSE 0)
             + PendingRecords(ws \ {w})

\* the router hands the directory to rag_service.index_documents
StartIndex(w, dir, limit) ==
    /\ pc[w] = "idle"
    /\ (uuid_next - 1) + PendingRecords(Workers) + Len(ChunksOf(dir)) <= limit
    /\ pc' = [pc EXCEPT ![w] = "i_load"]
    /\ req' = [req EXCEPT ![w] = [op |-> "index", directory |-> dir]]
    /\ calls' = [calls EXCEPT ![w] = <<>>]
    /\ result' = [result EXCEPT ![w] = NoResult]
    /\ UNCHANGED <<storeVars, indexVars, clock, queryLocals, ingestLocals, before>>
    /\ UNCHANGED otherLocals

\* HTTPException(status_code=...), as the client sees it
HTTPException(status_code) ==
    [status |-> "error", stage |-> "endpoint", error |-> "HTTPException",
     status_code |-> status_code]

\* main.py lines 162-163: "except Exception" catches whatever the try block
\* raised, an HTTPException included, and raises HTTPException(500)
ExceptException(e) == HTTPException(500)

\* main.py lines 143-144: the names of os.listdir that end with a supported
\* extension, as written
EndpointFiles(dir) ==
    SelectSeq(dir.files, LAMBDA f : f.suffix \in SupportedExtensions)

\* POST /index, main.py lines 133-153: the checks of the endpoint, then
\* rag_service.index_documents
IndexEndpoint(w, dir, limit) ==
    /\ pc[w] = "idle"
    /\ (uuid_next - 1) + PendingRecords(Workers) + Len(ChunksOf(dir)) <= limit
    /\ req' = [req EXCEPT ![w] = [op |-> "post_index", directory |-> dir]]
    /\ calls' = [calls EXCEPT ![w] = <<>>]
    /\ IF ~dir.exists \/ EndpointFiles(dir) = <<>>
       THEN /\ pc' = [pc EXCEPT ![w] = "failed"]
            /\ result' = [result EXCEPT ![w] = ExceptException(HTTPException(400))]
       ELSE /\ pc' = [pc EXCEPT ![w] = "i_load"]
            /\ result' = [result EXCEPT ![w] = NoResult]
    /\ UNCHANGED <<storeVars, indexVars, clock, queryLocals, ingestLocals, before>>
    /\ UNCHANGED otherLocals

\* Step 1: processor.load_documents(directory)
IndexLoad(w) ==
    /\ pc[w] = "i_load"
    /\ IF req[w].directory.exists
       THEN /\ documents' = [documents EXCEPT ![w] = LoadFiles(req[w].directory.files)]
            /\ pc' = [pc EXCEPT ![w] = "i_chunk"]
            /\ UNCHANGED result
       ELSE /\ Raise(w, "load", "FileNotFoundError")
            /\ UNCHANGED documents
    /\ UNCHANGED <<storeVars, indexVars, clock, req, queryLocals, chunks, embeddings,
                   calls, before>>
    /\ UNCHANGED otherLocals

\* Step 2: processor.chunk_documents(documents)
IndexChunk(w) ==
    /\ pc[w] = "i_chunk"
    /\ chunks' = [chunks EXCEPT ![w] = chunk_documents(documents[w]).chunks]
    /\ documents' = [documents EXCEPT ![w] = chunk_documents(documents[w]).documents]
    /\ pc' = [pc EXCEPT ![w] = "i_embed"]
    /\ UNCHANGED <<storeVars, indexVars, clock, req, queryLocals,
                   embeddings, result, calls, before>>
    /\ UNCHANGED otherLocals

\* an embedding step that stores each chunk as soon as it has its vector
IndexEmbedStoring(w) ==
    /\ pc[w] = "i_embed"
    /\ Contact(w, "embedding")
    /\ \E es \in [1..Len(chunks[w]) -> Embeddings] :
            /\ embeddings' = [embeddings EXCEPT ![w] = es]
            /\ collection' = add_documents(collection, chunks[w], es, uuid_next)
            /\ uuid_next' = uuid_next + Len(chunks[w])
            /\ added' = added + Len(chunks[w])
            /\ UNCHANGED <<collections, deleted>>
            /\ pc' = [pc EXCEPT ![w] = "i_store"]
    /\ UNCHANGED <<storeVars, clock, req, queryLocals, documents, chunks, result,
                   before>>
    /\ UNCHANGED otherLocals

\* Step 3: embedding_service.generate_embeddings_batch(texts); the provider
\* answers one vector per text, or refuses the request
IndexEmbed(w) ==
    /\ pc[w] = "i_embed"
    /\ Contact(w, "embedding")
    /\ \/ \E es \in [1..Len(chunks[w]) -> Embeddings] :
            /\ embeddings' = [embeddings EXCEPT ![w] = es]
            /\ pc' = [pc EXCEPT ![w] = "i_store"]
            /\ UNCHANGED result
       \/ /\ Raise(w, "embed", "ProviderError")
          /\ UNCHANGED embeddings
    /\ UNCHANGED <<storeVars, indexVars, clock, req, queryLocals, documents, chunks,
                   before>>
    /\ UNCHANGED otherLocals

\* an add without the length check, storing as many records as both lists cover
IndexStoreUnchecked(w) ==
    /\ pc[w] = "i_store"
    /\ Contact(w, "index")
    /\ LET n == Min(Len(chunks[w]), Len(embeddings[w]))
       IN  /\ collection' = add_documents(collection, SubSeq(chunks[w], 1, n),
                                          SubSeq(embeddings[w], 1, n), uuid_next)
           /\ uuid_next' = uuid_next + n
           /\ added' = added + n
           /\ UNCHANGED <<collections, deleted>>
           /\ result' = [result EXCEPT ![w] = [status |-> "ok", count |-> n]]
    /\ pc' = [pc EXCEPT ![w] = "done"]
    /\ UNCHANGED <<storeVars, clock, req, queryLocals, ingestLocals, before>>
    /\ UNCHANGED otherLocals

\* Step 4: vector_store.add_documents(chunks, embeddings); index_documents
\* returns the count
IndexStore(w) ==
    /\ pc[w] = "i_store"
    /\ IF Len(chunks[w]) # Len(embeddings[w])
       THEN /\ Raise(w, "store", "ValueError")
            /\ UNCHANGED <<indexVars, calls>>
       ELSE /\ Contact(w, "index")
            /\ \/ /\ ~CollectionMissing
                  /\ collection' = add_documents(collection, chunks[w], embeddings[w],
                                                 uuid_next)
                  /\ uuid_next' = uuid_next + Len(chunks[w])
                  /\ added' = added + Len(chunks[w])
                  /\ UNCHANGED <<collections, deleted>>
                  /\ pc' = [pc EXCEPT ![w] = "done"]
                  /\ result' = [result EXCEPT ![w] =
                                    [status |-> "ok", count |-> Len(chunks[w])]]
               \/ /\ Raise(w, "store", "ProviderError")
                  /\ UNCHANGED indexVars
    /\ UNCHANGED <<storeVars, clock, req, queryLocals, ingestLocals, before>>
    /\ UNCHANGED otherLocals

\* DELETE /clear-db: vector_store.clear_collection, line 110:
\* client.delete_collection, which raises when there is no such collection
ClearCollection(w) ==
    /\ pc[w] = "idle"
    /\ req' = [req EXCEPT ![w] = [op |-> "clear_db"]]
    /\ calls' = [calls EXCEPT ![w] = <<"index">>]
    /\ \/ /\ ~CollectionMissing
          /\ collections' = collections \ {collection_name}
          /\ collection' = <<>>
          /\ added' = 0
          /\ deleted' = 0
          /\ pc' = [pc EXCEPT ![w] = "db_create"]
          /\ result' = [result EXCEPT ![w] = NoResult]
       \/ /\ Raise(w, "clear_db", "ProviderError")
          /\ UNCHANGED <<collection, collections, added, deleted>>
    /\ UNCHANGED <<storeVars, uuid_next, clock, queryLocals, ingestLocals, before>>
    /\ UNCHANGED otherLocals

\* clear_collection lines 111-114: client.create_collection, bound to
\* self.collection.  It raises when a collection of the name exists (a
\* process constructed in between has created it); when it fails otherwise,
\* the client is left with no collection of the name
ClearCreate(w) ==
    /\ pc[w] = "db_create"
    /\ Contact(w, "index")
    /\ \/ /\ CollectionMissing
          /\ collections' = collections \cup {collection_name}
          /\ pc' = [pc EXCEPT ![w] = "done"]
          /\ result' = [result EXCEPT ![w] = [status |-> "ok"]]
       \/ /\ Raise(w, "clear_db", "ProviderError")
          /\ UNCHANGED collections
    /\ UNCHANGED <<storeVars, collection, uuid_next, added, deleted, clock, req,
                   queryLocals, ingestLocals, before>>
    /\ UNCHANGED otherLocals

\* Inputs: the sources handed to delete_by_source: the paths of two files
\* and the bare name of one, which is the source of no record
Sources == {PathStr(DocumentsDir, "c.txt"), PathStr(DocumentsDir, "a.TXT"), "c.txt"}

\* the ids of the records of a source
IdsOf(coll, source) ==
    LET found == SelectSeq(coll, LAMBDA rec : rec.metadata.source = source)
    IN  [i \in 1..Len(found) |-> found[i].id]

\* vector_store.delete_by_source(source), lines 124-128:
\* collection.get(where={"source": source}); with no id there is nothing more
DeleteBySource(w, source) ==
    /\ pc[w] = "idle"
    /\ req' = [req EXCEPT ![w] = [op |-> "delete", source |-> source]]
    /\ calls' = [calls EXCEPT ![w] = <<"index">>]
    /\ \/ /\ ~CollectionMissing
          /\ results' = [results EXCEPT ![w] = IdsOf(collection, source)]
          /\ IF results'[w] = <<>>
             THEN /\ pc' = [pc EXCEPT ![w] = "done"]
                  /\ result' = [result EXCEPT ![w] = [status |-> "ok"]]
             ELSE /\ pc' = [pc EXCEPT ![w] = "d_delete"]
                  /\ result' = [result EXCEPT ![w] = NoResult]
       \/ /\ Raise(w, "delete", "ProviderError")
          /\ UNCHANGED results
    /\ UNCHANGED <<storeVars, indexVars, clock, queryLocals, ingestLocals, before,
                   total_documents>>

\* delete_by_source line 129: collection.delete(ids), which removes the records
\* that still hold one of the ids
DeleteBySourceDelete(w) ==
    /\ pc[w] = "d_delete"
    /\ Contact(w, "index")
    /\ \/ /\ ~CollectionMissing
          /\ LET ids == {results[w][i] : i \in 1..Len(results[w])}
                 kept == SelectSeq(collection, LAMBDA rec : rec.id \notin ids)
             IN  /\ collection' = kept
                 /\ deleted' = deleted + (Len(collection) - Len(kept))
          /\ pc' = [pc EXCEPT ![w] = "done"]
          /\ result' = [result EXCEPT ![w] = [status |-> "ok"]]
       \/ /\ Raise(w, "delete", "ProviderError")
          /\ UNCHANGED <<collection, deleted>>
    /\ UNCHANGED <<storeVars, collections, uuid_next, added, clock, req, queryLocals, ingestLocals,
                   before>>
    /\ UNCHANGED otherLocals

----------------------------------------------------------------------------
(* The services, called one operation at a time *)

\* Inputs: the chunk lists, vector lists and texts handed to the services
ChunkLists == {ChunksOf(dir) : dir \in {EmptyDirectory, SmallDirectory, MixedDirectory}}
VectorLists == UNION {[1..n -> Embeddings] : n \in 0..MaxVectors}
EmbedTexts == Queries \cup { <<>> }
TextLists == UNION {[1..n -> EmbedTexts] : n \in 0..MaxBatch}
Alphabet == {"a", "b", " ", "\n"}
Texts == UNION {[1..n -> Alphabet] : n \in 0..MaxTextLen}

\* a document as load_documents builds it from a text file of the directory
Doc(name, content) ==
    [content |-> content,
     metadata |-> [source |-> PathStr(DocumentsDir, name), filename |-> name,
                   file_type |-> ".txt"]]
SampleDocuments ==
    { Doc("a.txt", <<"a", "b", " ", "c", "d">>),
      Doc("c.txt", <<"e">>),
      Doc("blank.txt", <<" ", "\n">>),
      Doc("long.txt", <<"a", "b", "a", "b", "a", "b">>) }
DocumentLists == UNION {[1..n -> SampleDocuments] : n \in 0..MaxDocuments}

\* vector_store.add_documents(chunks, embeddings), entered with any two lists;
\* IndexStore is its body
StartAddDocuments(w, cs, es, limit) ==
    /\ pc[w] = "idle"
    /\ (uuid_next - 1) + Len(cs) <= limit
    /\ pc' = [pc EXCEPT ![w] = "i_store"]
    /\ req' = [req EXCEPT ![w] = [op |-> "add"]]
    /\ chunks' = [chunks EXCEPT ![w] = cs]
    /\ embeddings' = [embeddings EXCEPT ![w] = es]
    /\ calls' = [calls EXCEPT ![w] = <<>>]
    /\ result' = [result EXCEPT ![w] = NoResult]
    /\ UNCHANGED <<storeVars, indexVars, clock, queryLocals, documents, before>>
    /\ UNCHANGED otherLocals

\* VectorStore(): a process constructs the service anew;
\* client.get_or_create_collection leaves a collection of the name, with the
\* records it held if there was one
VectorStoreInit(w) ==
    /\ pc[w] = "idle"
    /\ req' = [req EXCEPT ![w] = [op |-> "init"]]
    /\ calls' = [calls EXCEPT ![w] = <<"index">>]
    /\ \/ /\ collections' = collections \cup {collection_name}
          /\ pc' = [pc EXCEPT ![w] = "done"]
          /\ result' = [result EXCEPT ![w] = [status |-> "ok"]]
       \/ /\ Raise(w, "init", "ProviderError")
          /\ UNCHANGED collections
    /\ UNCHANGED <<storeVars, collection, uuid_next, added, deleted, clock,
                   queryLocals, ingestLocals, before>>
    /\ UNCHANGED otherLocals

\* vector_store.get_collection_count(): collection.count()
GetCollectionCount(w) ==
    /\ pc[w] = "idle"
    /\ req' = [req EXCEPT ![w] = [op |-> "count"]]
    /\ calls' = [calls EXCEPT ![w] = <<"index">>]
    /\ \/ /\ ~CollectionMissing
          /\ pc' = [pc EXCEPT ![w] = "done"]
          /\ result' = [result EXCEPT ![w] =
                          [status |-> "ok",
                           count |-> get_collection_count(collection)]]
       \/ Raise(w, "count", "ProviderError")
    /\ UNCHANGED <<storeVars, indexVars, clock, queryLocals, ingestLocals, before>>
    /\ UNCHANGED otherLocals

\* vector_store.similarity_search(query_embedding, n_results):
\* collection.query, which raises or returns a ranking, and the formatting of
\* the ranking
SimilaritySearch(w, e, k) ==
    /\ pc[w] = "idle"
    /\ req' = [req EXCEPT ![w] = [op |-> "search", query_embedding |-> e,
                                  n_results |-> k]]
    /\ calls' = [calls EXCEPT ![w] = <<"index">>]
    /\ \/ /\ ~CollectionMissing
          /\ pc' = [pc EXCEPT ![w] = "done"]
          /\ \E r \in Rankings(collection, e, k) :
                  result' = [result EXCEPT ![w] =
                               [status |-> "ok",
                                documents |-> SearchResults(collection, e, r)]]
       \/ Raise(w, "search", "ProviderError")
    /\ UNCHANGED <<storeVars, indexVars, clock, queryLocals, ingestLocals, before>>
    /\ UNCHANGED otherLocals

\* embedding_service.generate_embedding(text)
GenerateEmbedding(w, text) ==
    /\ pc[w] = "idle"
    /\ req' = [req EXCEPT ![w] = [op |-> "embed", texts |-> <<text>>]]
    /\ IF Normalize(text) = <<>>
       THEN /\ Raise(w, "embed", "EmptyInput")
            /\ calls' = [calls EXCEPT ![w] = <<>>]
       ELSE /\ calls' = [calls EXCEPT ![w] = <<"embedding">>]
            /\ \/ \E e \in Embeddings :
                    /\ pc' = [pc EXCEPT ![w] = "done"]
                    /\ result' = [result EXCEPT ![w] =
                                    [status |-> "ok", embeddings |-> <<e>>]]
               \/ Raise(w, "embed", "ProviderError")
    /\ UNCHANGED <<storeVars, indexVars, clock, queryLocals, ingestLocals, before>>
    /\ UNCHANGED otherLocals

\* embedding_service.generate_embeddings_batch(texts): the cleaned texts go to
\* the provider, which answers one vector per text or refuses the request
GenerateEmbeddingsBatch(w, texts) ==
    /\ pc[w] = "idle"
    /\ req' = [req EXCEPT ![w] = [op |-> "embed", texts |-> texts]]
    /\ calls' = [calls EXCEPT ![w] = <<"embedding">>]
    /\ \/ \E es \in [1..Len(texts) -> Embeddings] :
            /\ pc' = [pc EXCEPT ![w] = "done"]
            /\ result' = [result EXCEPT ![w] = [status |-> "ok", embeddings |-> es]]
       \/ Raise(w, "embed", "ProviderError")
    /\ UNCHANGED <<storeVars, indexVars, clock, queryLocals, ingestLocals, before>>
    /\ UNCHANGED otherLocals

\* text_splitter.split_text(doc['content']) of chunk_documents
SplitDocument(w, text) ==
    /\ pc[w] = "idle"
    /\ req' = [req EXCEPT ![w] = [op |-> "split", text |-> text]]
    /\ calls' = [calls EXCEPT ![w] = <<>>]
    /\ pc' = [pc EXCEPT ![w] = "done"]
    /\ result' = [result EXCEPT ![w] = [status |-> "ok", chunks |-> split_text(text)]]
    /\ UNCHANGED <<storeVars, indexVars, clock, queryLocals, ingestLocals, before>>
    /\ UNCHANGED otherLocals

\* processor.chunk_documents(documents): the caller keeps the list it handed
\* in (documents) and receives the chunks
ChunkDocuments(w, docs) ==
    /\ pc[w] = "idle"
    /\ req' = [req EXCEPT ![w] = [op |-> "chunk", documents |-> docs]]
    /\ calls' = [calls EXCEPT ![w] = <<>>]
    /\ documents' = [documents EXCEPT ![w] = chunk_documents(docs).documents]
    /\ chunks' = [chunks EXCEPT ![w] = chunk_documents(docs).chunks]
    /\ pc' = [pc EXCEPT ![w] = "done"]
    /\ result' = [result EXCEPT ![w] = [status |-> "ok", chunks |-> chunks'[w]]]
    /\ UNCHANGED <<storeVars, indexVars, clock, queryLocals, embeddings, before>>
    /\ UNCHANGED otherLocals

----------------------------------------------------------------------------
(* Specifications *)

Next ==
    \E w \in Workers :
        \/ \E u \in ConcurrentUsers, q \in Queries :
               StartQuery(w, u, q, MaxConcurrentAppends)
        \/ QueryEmbed(w)
        \/ QuerySearch(w)
        \/ QueryContext(w)
        \/ QueryContextOpen(w)
        \/ QueryGenerate(w)
        \/ QueryAdd(w)
        \/ QueryAddOpen(w)
        \/ QueryAddFresh(w)
        \/ QueryAddStamp(w)
        \/ QueryAddUpdated(w)
        \/ QuerySaveOpen(w)
        \/ QuerySaveWrite(w)
        \/ QueryRespond(w)
        \/ \E u \in ConcurrentUsers : GetHistory(w, u)
        \/ GetHistoryOpen(w)
        \/ GetHistoryCreated(w)
        \/ GetHistoryUpdated(w)
        \/ \E u \in ConcurrentUsers : ClearHistory(w, u)
        \/ ClearHistoryUnlink(w)
        \/ GetStats(w)
        \/ GetStatsUsers(w)
        \/ \E dir \in Directories : IndexEndpoint(w, dir, MaxConcurrentRecords)
        \/ IndexLoad(w)
        \/ IndexChunk(w)
        \/ IndexEmbed(w)
        \/ IndexStore(w)
        \/ ClearCollection(w)
        \/ ClearCreate(w)
        \/ Respond(w)
        \/ Crash(w)

Spec == Init /\ [][Next]_vars

\* one worker, whose handlers run to completion one after the other: the
\* query pipeline and the Conversation Store over an index that does not change
NextSeq ==
    \/ \E u \in Users, q \in Queries : StartQuery(SeqWorker, u, q, MaxAppends)
    \/ QueryEmbed(SeqWorker)
    \/ QuerySearch(SeqWorker)
    \/ QueryContext(SeqWorker)
    \/ QueryContextOpen(SeqWorker)
    \/ QueryGenerate(SeqWorker)
    \/ QueryAdd(SeqWorker)
    \/ QueryAddOpen(SeqWorker)
    \/ QueryAddFresh(SeqWorker)
    \/ QueryAddStamp(SeqWorker)
    \/ QueryAddUpdated(SeqWorker)
    \/ QuerySaveOpen(SeqWorker)
    \/ QuerySaveWrite(SeqWorker)
    \/ QueryRespond(SeqWorker)
    \/ \E u \in Users : GetHistory(SeqWorker, u)
    \/ GetHistoryOpen(SeqWorker)
    \/ GetHistoryCreated(SeqWorker)
    \/ GetHistoryUpdated(SeqWorker)
    \/ \E u \in Users : ClearHistory(SeqWorker, u)
    \/ ClearHistoryUnlink(SeqWorker)
    \/ GetStats(SeqWorker)
    \/ GetStatsUsers(SeqWorker)
    \/ Respond(SeqWorker)

SpecSeq == InitSeq /\ [][NextSeq]_vars

\* one caller of rag_service.index_documents, the ingestion pipeline, and of
\* the index
NextIngest ==
    \/ \E dir \in Directories : StartIndex(SeqWorker, dir, MaxRecords)
    \/ IndexLoad(SeqWorker)
    \/ IndexChunk(SeqWorker)
    \/ IndexEmbed(SeqWorker)
    \/ IndexStore(SeqWorker)
    \/ ClearCollection(SeqWorker)
    \/ ClearCreate(SeqWorker)
    \/ Respond(SeqWorker)

SpecIngest == Init /\ [][NextIngest]_vars

\* one worker process that a supervisor restarts when it is killed
NextCrash ==
    \/ \E u \in Users, q \in Queries : StartQuery(SeqWorker, u, q, MaxCrashAppends)
    \/ QueryEmbed(SeqWorker)
    \/ QuerySearch(SeqWorker)
    \/ QueryContext(SeqWorker)
    \/ QueryContextOpen(SeqWorker)
    \/ QueryGenerate(SeqWorker)
    \/ QueryAdd(SeqWorker)
    \/ QueryAddOpen(SeqWorker)
    \/ QueryAddFresh(SeqWorker)
    \/ QueryAddStamp(SeqWorker)
    \/ QueryAddUpdated(SeqWorker)
    \/ QuerySaveOpen(SeqWorker)
    \/ QuerySaveWrite(SeqWorker)
    \/ QueryRespond(SeqWorker)
    \/ \E u \in Users : GetHistory(SeqWorker, u)
    \/ GetHistoryOpen(SeqWorker)
    \/ GetHistoryCreated(SeqWorker)
    \/ GetHistoryUpdated(SeqWorker)
    \/ \E u \in Users : ClearHistory(SeqWorker, u)
    \/ ClearHistoryUnlink(SeqWorker)
    \/ GetStats(SeqWorker)
    \/ GetStatsUsers(SeqWorker)
    \/ Respond(SeqWorker)
    \/ Crash(SeqWorker)

SpecCrash == InitSeq /\ [][NextCrash]_vars

\* one worker: the Conversation Store, filled by queries and read through each
\* of its operations
NextMemory ==
    \/ \E u \in Users, q \in Queries : StartQuery(SeqWorker, u, q, MaxMemoryAppends)
    \/ QueryEmbed(SeqWorker)
    \/ QuerySearch(SeqWorker)
    \/ QueryContext(SeqWorker)
    \/ QueryContextOpen(SeqWorker)
    \/ QueryGenerate(SeqWorker)
    \/ QueryAdd(SeqWorker)
    \/ QueryAddOpen(SeqWorker)
    \/ QueryAddFresh(SeqWorker)
    \/ QueryAddStamp(SeqWorker)
    \/ QueryAddUpdated(SeqWorker)
    \/ QuerySaveOpen(SeqWorker)
    \/ QuerySaveWrite(SeqWorker)
    \/ QueryRespond(SeqWorker)
    \/ \E u \in Users : GetHistory(SeqWorker, u)
    \/ GetHistoryOpen(SeqWorker)
    \/ GetHistoryCreated(SeqWorker)
    \/ GetHistoryUpdated(SeqWorker)
    \/ \E u \in Users : ClearHistory(SeqWorker, u)
    \/ ClearHistoryUnlink(SeqWorker)
    \/ GetStats(SeqWorker)
    \/ GetStatsUsers(SeqWorker)
    \/ \E u \in Users, n \in 0..MaxContextMessages :
           GetConversationContext(SeqWorker, u, n)
    \/ GetConversationContextOpen(SeqWorker)
    \/ Respond(SeqWorker)

SpecMemory == InitSeq /\ [][NextMemory]_vars

\* one worker: the Conversation Store under every user id a request may carry
NextUsers ==
    \/ \E u \in UserIds, q \in Queries : StartQuery(SeqWorker, u, q, MaxUserAppends)
    \/ QueryEmbed(SeqWorker)
    \/ QuerySearch(SeqWorker)
    \/ QueryContext(SeqWorker)
    \/ QueryContextOpen(SeqWorker)
    \/ QueryGenerate(SeqWorker)
    \/ QueryAdd(SeqWorker)
    \/ QueryAddOpen(SeqWorker)
    \/ QueryAddFresh(SeqWorker)
    \/ QueryAddStamp(SeqWorker)
    \/ QueryAddUpdated(SeqWorker)
    \/ QuerySaveOpen(SeqWorker)
    \/ QuerySaveWrite(SeqWorker)
    \/ QueryRespond(SeqWorker)
    \/ \E u \in UserIds : GetHistory(SeqWorker, u)
    \/ GetHistoryOpen(SeqWorker)
    \/ GetHistoryCreated(SeqWorker)
    \/ GetHistoryUpdated(SeqWorker)
    \/ \E u \in UserIds : ClearHistory(SeqWorker, u)
    \/ ClearHistoryUnlink(SeqWorker)
    \/ GetStats(SeqWorker)
    \/ GetStatsUsers(SeqWorker)
    \/ \E u \in UserIds : GetConversationContext(SeqWorker, u, ContextMessages)
    \/ GetConversationContextOpen(SeqWorker)
    \/ Respond(SeqWorker)

SpecUsers == InitSeq /\ [][NextUsers]_vars

\* one worker: the ingestion pipeline entered through POST /index
NextApi ==
    \/ \E dir \in Directories : IndexEndpoint(SeqWorker, dir, MaxApiRecords)
    \/ IndexLoad(SeqWorker)
    \/ IndexChunk(SeqWorker)
    \/ IndexEmbed(SeqWorker)
    \/ IndexStore(SeqWorker)
    \/ ClearCollection(SeqWorker)
    \/ ClearCreate(SeqWorker)
    \/ Respond(SeqWorker)

SpecApi == Init /\ [][NextApi]_vars

\* one caller: the operations of the vector index, each with inputs of its own
NextServices ==
    \/ \E cs \in ChunkLists, es \in VectorLists :
           StartAddDocuments(SeqWorker, cs, es, MaxServiceRecords)
    \/ IndexStore(SeqWorker)
    \/ ClearCollection(SeqWorker)
    \/ ClearCreate(SeqWorker)
    \/ \E source \in Sources : DeleteBySource(SeqWorker, source)
    \/ DeleteBySourceDelete(SeqWorker)
    \/ VectorStoreInit(SeqWorker)
    \/ GetCollectionCount(SeqWorker)
    \/ \E e \in Embeddings, k \in 1..MaxNResults : SimilaritySearch(SeqWorker, e, k)
    \/ Respond(SeqWorker)

SpecServices == Init /\ [][NextServices]_vars

\* several callers of the vector index at once
NextIndex ==
    \E w \in Workers :
        \/ \E cs \in ChunkLists, es \in VectorLists :
               StartAddDocuments(w, cs, es, MaxServiceRecords)
        \/ IndexStore(w)
        \/ ClearCollection(w)
        \/ ClearCreate(w)
        \/ \E source \in Sources : DeleteBySource(w, source)
        \/ DeleteBySourceDelete(w)
        \/ VectorStoreInit(w)
        \/ GetCollectionCount(w)
        \/ Respond(w)

SpecIndex == Init /\ [][NextIndex]_vars

\* one caller: the operations of the embedding client and of the text
\* splitter, each with inputs of its own
NextText ==
    \/ \E text \in EmbedTexts : GenerateEmbedding(SeqWorker, text)
    \/ \E texts \in TextLists : GenerateEmbeddingsBatch(SeqWorker, texts)
    \/ \E text \in Texts : SplitDocument(SeqWorker, text)
    \/ \E docs \in DocumentLists : ChunkDocuments(SeqWorker, docs)
    \/ Respond(SeqWorker)

SpecText == Init /\ [][NextText]_vars

----------------------------------------------------------------------------
(* Properties *)

Range(seq) == {seq[i] : i \in 1..Len(seq)}
Occurrences(seq, x) == Cardinality({i \in 1..Len(seq) : seq[i] = x})
IsPrefix(p, seq) == Len(p) <= Len(seq) /\ SubSeq(seq, 1, Len(p)) = p
Last(seq) == seq[Len(seq)]
Front(seq) == SubSeq(seq, 1, Len(seq) - 1)

\* an append for user u is between its open and its write
Writing(u) == \E w \in Workers : pc[w] = "q_write" /\ req[w].user_id = u

\* a text with nothing but white space in it
AllWhitespace(text) == \A i \in 1..Len(text) : text[i] \in {" ", "\n", "\t"}

\* C1: every stored conversation record holds at most max_history
\* interactions, whatever appends, gets and clears came before.
C1_BoundedHistory ==
    \A u \in Users :
        files[u].kind = "json" => Len(files[u].data.messages) <= max_history

\* a user has appended more than max_history interactions and has a record
C1_Witness ==
    \E u \in Users :
        /\ Len(appended[u]) > max_history
        /\ files[u].kind = "json"
        /\ Len(files[u].data.messages) = max_history

\* C2: after m > max_history appends for one user with no clear in between,
\* the stored record is exactly the last max_history appended interactions, in
\* insertion order (the oldest m - max_history are the ones dropped).
C2_KeepsLastAppended ==
    \A u \in Users :
        (Len(appended[u]) > max_history /\ ~Writing(u)) =>
            /\ files[u].kind = "json"
            /\ files[u].data.messages =
                   SubSeq(appended[u], Len(appended[u]) - max_history + 1,
                          Len(appended[u]))

\* an append beyond the bound has completed
C2_Witness ==
    \E u \in Users :
        /\ Len(appended[u]) = max_history + 1
        /\ ~Writing(u)
        /\ files[u].kind = "json"
        /\ files[u].data.messages[1] = appended[u][2]

\* C3: appends of concurrent queries of one user are serialized: every
\* interaction appended since the user's last clear is in the stored record,
\* as long as no more than max_history were appended.
C3_NoLostAppend ==
    \A u \in Users :
        (files[u].kind = "json" /\ Len(appended[u]) <= max_history) =>
            \A i \in 1..Len(appended[u]) :
                appended[u][i] \in Range(files[u].data.messages)

\* C4: an append persists atomically: once no append is writing a user's
\* file, whether it completed, failed or was killed, a get for that user reads
\* a complete record, never an empty or cut one.
C4_AtomicPersist ==
    \A u \in Users :
        ~Writing(u) => get_history(files[u], u, clock).ok

\* the stages of query that precede the append
FailurePoints == {"embed", "search", "context", "generate"}

\* C5: a query that fails in the embedding call, the index query, the context
\* fetch or the generation call gives its caller the error and no answer, and
\* leaves the user's stored record as it was before the call.
C5_FailedQueryLeavesStore ==
    \A w \in Workers :
        (req[w].op = "query" /\ pc[w] = "failed" /\ result[w].stage \in FailurePoints) =>
            /\ result[w].status = "error"
            /\ files[req[w].user_id] = before[w]

\* a query has failed at the generation call for a user who has a record
C5_Witness ==
    \E w \in Workers :
        /\ req[w].op = "query"
        /\ pc[w] = "failed"
        /\ result[w].stage = "generate"
        /\ files[req[w].user_id].kind = "json"

\* C6: a query that is blank once normalized fails with EmptyInput before any
\* of the embedding provider, the index, the generation provider and the
\* Conversation Store is contacted, and records no interaction.
C6_BlankQueryRejected ==
    \A w \in Workers :
        (req[w].op = "query" /\ AllWhitespace(req[w].query) /\ pc[w] # "q_embed") =>
            /\ pc[w] = "failed"
            /\ result[w] = Failure("embed", "EmptyInput")
            /\ calls[w] = <<>>
            /\ files[req[w].user_id] = before[w]

\* a blank, non-empty query has been rejected for a user who has a record
C6_Witness ==
    \E w \in Workers :
        /\ req[w].op = "query"
        /\ req[w].query # <<>>
        /\ AllWhitespace(req[w].query)
        /\ pc[w] = "failed"
        /\ files[req[w].user_id].kind = "json"

\* the interactions of the user that precede the query worker w serves
PriorInteractions(w) ==
    IF pc[w] \in {"q_respond", "done"} THEN Front(appended[req[w].user_id])
    ELSE appended[req[w].user_id]

\* one interaction as its query/answer pair
PairText(m) == <<"User: ">> \o m.user \o <<"\n">>
               \o <<"Assistant: ">> \o m.assistant \o <<"\n\n">>

RECURSIVE PairsText(_)
PairsText(ms) == IF ms = <<>> THEN <<>> ELSE PairText(Head(ms)) \o PairsText(Tail(ms))

\* C7: the prompt of every query holds the user's most recent prior
\* interactions, up to 3, as query/answer pairs, oldest first, and no other
\* interaction.
C7_PromptHoldsRecentHistory ==
    \A w \in Workers :
        (req[w].op = "query" /\ user_message[w] # <<>>) =>
            LET prior == PriorInteractions(w)
                k == Min(3, Len(prior))
                recent == SubSeq(prior, Len(prior) - k + 1, Len(prior))
            IN  /\ Occurrences(user_message[w], "User: ") = k
                /\ Occurrences(user_message[w], "Assistant: ") = k
                /\ k > 0 => IsPrefix(<<"Previous conversation:\n">> \o PairsText(recent)
                                         \o <<"\n\nContext from knowledge base:\n">>,
                                     user_message[w])

\* a prompt was assembled for a user with more than 3 prior interactions,
\* while another user has a record
C7_Witness ==
    \E w \in Workers :
        /\ req[w].op = "query"
        /\ user_message[w] # <<>>
        /\ Len(PriorInteractions(w)) > 3
        /\ \E u \in Users \ {req[w].user_id} : files[u].kind = "json"

\* C8: over an empty index a query retrieves nothing, still calls the
\* generation provider exactly once, returns the generated text with an empty
\* retrieved sequence and appends an interaction with retrieved count 0.
C8_EmptyIndexStillGenerates ==
    \A w \in Workers :
        (req[w].op = "query" /\ collection = <<>>) =>
            /\ pc[w] \notin {"q_embed", "q_search", "failed"}
                   => retrieved_docs[w] = <<>>
            /\ pc[w] \notin {"q_embed", "q_search", "q_context", "q_context_open",
                              "q_generate", "failed"}
                   => Occurrences(calls[w], "generation") = 1
            /\ pc[w] = "done" =>
                   /\ result[w].status = "ok"
                   /\ result[w].answer = answer[w]
                   /\ result[w].retrieved_docs = <<>>
                   /\ files[req[w].user_id].kind = "json"
                   /\ Last(files[req[w].user_id].data.messages).user = req[w].query
                   /\ Last(files[req[w].user_id].data.messages).assistant = answer[w]
                   /\ Last(files[req[w].user_id].data.messages).retrieved_docs = 0

\* a query over the empty index has returned
C8_Witness ==
    \E w \in Workers :
        /\ req[w].op = "query"
        /\ collection = <<>>
        /\ pc[w] = "done"

\* C9: when retrieval returns nothing, the context part of the prompt says so:
\* it is more than the heading under which zero passages are listed.
C9_PromptStatesNoContext ==
    \A w \in Workers :
        (req[w].op = "query" /\ user_message[w] # <<>> /\ retrieved_docs[w] = <<>>) =>
            context[w] # <<"Relevant information from documents:\n\n">>

\* no file of the directory is supported, readable and not blank
NoContent(dir) ==
    \A i \in 1..Len(dir.files) :
        \/ Lower(dir.files[i].suffix) \notin {".txt", ".pdf", ".docx"}
        \/ ~dir.files[i].readable
        \/ AllWhitespace(dir.files[i].content)

\* C10: an ingestion run over a directory in which no file produces content
\* returns 0 without a call to the embedding client or to the index client.
C10_NoContentNoCalls ==
    \A w \in Workers :
        (/\ req[w].op = "index"
         /\ req[w].directory.exists
         /\ NoContent(req[w].directory)
         /\ pc[w] \in {"i_store", "done", "failed"}) =>
            /\ pc[w] = "done"
            /\ result[w] = [status |-> "ok", count |-> 0]
            /\ calls[w] = <<>>

\* a file that yields a document: supported, read without an exception, not
\* blank once trimmed
GoodFile(f) ==
    /\ Lower(f.suffix) \in {".txt", ".pdf", ".docx"}
    /\ f.readable
    /\ ~AllWhitespace(f.content)

GoodNames(dir) ==
    {dir.files[i].name : i \in {j \in 1..Len(dir.files) : GoodFile(dir.files[j])}}

\* C11: an extraction failure or a blank file never aborts an ingestion run:
\* the run does not fail in loading, the failing and blank files give no
\* document and no chunk, and every other supported file is loaded, chunked
\* and, when the run completes, indexed.
C11_BadFilesSkipped ==
    \A w \in Workers :
        (req[w].op = "index" /\ req[w].directory.exists) =>
            /\ pc[w] = "failed" => result[w].stage # "load"
            /\ pc[w] \in {"i_chunk", "i_embed", "i_store", "done"} =>
                   {documents[w][i].metadata.filename : i \in 1..Len(documents[w])}
                       = GoodNames(req[w].directory)
            /\ pc[w] \in {"i_embed", "i_store", "done"} =>
                   {chunks[w][i].metadata.filename : i \in 1..Len(chunks[w])}
                       = GoodNames(req[w].directory)
            /\ pc[w] = "done" =>
                   \A n \in GoodNames(req[w].directory) :
                       \E i \in 1..Len(collection) : collection[i].metadata.filename = n

\* a run over a directory with a failing file, a blank file and a good file
\* has completed
C11_Witness ==
    \E w \in Workers :
        /\ req[w].op = "index"
        /\ pc[w] = "done"
        /\ GoodNames(req[w].directory) # {}
        /\ \E i \in 1..Len(req[w].directory.files) :
               ~req[w].directory.files[i].readable
        /\ \E i \in 1..Len(req[w].directory.files) :
               /\ req[w].directory.files[i].readable
               /\ AllWhitespace(req[w].directory.files[i].content)

\* the steps of an ingestion run, in their order
IngestOrder ==
    { <<"idle", "i_load">>, <<"i_load", "i_chunk">>, <<"i_chunk", "i_embed">>,
      <<"i_embed", "i_store">>, <<"i_store", "done">>,
      <<"i_load", "failed">>, <<"i_embed", "failed">>, <<"i_store", "failed">>,
      <<"done", "idle">>, <<"failed", "idle">> }

\* C12: an ingestion run goes through loading, chunking, embedding, storing
\* and done in that order, each stage once over the whole set; the index
\* changes only in the storing step, after all chunks have their embeddings,
\* so a run that fails in loading or embedding gives the caller the error and
\* leaves the records of the index as they were.
C12_StagesInOrder ==
    [][\A w \in Workers :
          (req[w].op = "index" \/ req'[w].op = "index") =>
              /\ pc'[w] # pc[w] => <<pc[w], pc'[w]>> \in IngestOrder
              /\ (pc[w] = "i_load" /\ pc'[w] = "i_chunk") =>
                     documents'[w] = LoadFiles(req[w].directory.files)
              /\ (pc[w] = "i_chunk" /\ pc'[w] = "i_embed") =>
                     chunks'[w] = chunk_documents(documents[w]).chunks
              /\ (pc[w] = "i_embed" /\ pc'[w] = "i_store") =>
                     Len(embeddings'[w]) = Len(chunks[w])
              /\ Occurrences(calls'[w], "embedding") <= 1
              /\ Occurrences(calls'[w], "index") <= 1
              /\ collection' # collection => (pc[w] = "i_store" /\ pc'[w] = "done")
              /\ pc'[w] = "failed" =>
                     /\ result'[w].status = "error"
                     /\ collection' = collection
      ]_vars

\* a run has failed in embedding over an index that holds records
C12_Witness ==
    \E w \in Workers :
        /\ req[w].op = "index"
        /\ pc[w] = "failed"
        /\ result[w].stage = "embed"
        /\ chunks[w] # <<>>
        /\ collection # <<>>

\* the interactions stored for user u
Stored(u) == IF files[u].kind = "json" THEN files[u].data.messages ELSE <<>>

\* C13: for every n >= 0 the recent context of a user is the rendering of the
\* last min(n, stored) interactions, user line then assistant line, oldest
\* first, and the empty text when that number is 0.
C13_ContextRendersLastN ==
    \A w \in Workers :
        (req[w].op = "context" /\ pc[w] = "done") =>
            LET stored == Stored(req[w].user_id)
                k == Min(req[w].n_messages, Len(stored))
                recent == SubSeq(stored, Len(stored) - k + 1, Len(stored))
            IN  result[w].context =
                    IF k = 0 THEN <<>>
                    ELSE <<"Previous conversation:\n">> \o PairsText(recent)

\* C14: a get for a user without a record returns a record with that user_id
\* and no messages, does not fail and stores nothing; a user is listed only
\* once an append for the user has opened the user's file.
C14_GetCreatesNothing ==
    /\ \A w \in Workers :
          (req[w].op = "get" /\ before[w] = Absent) =>
              /\ pc[w] # "failed"
              /\ files[req[w].user_id] = Absent
              /\ pc[w] = "done" =>
                     /\ result[w].status = "ok"
                     /\ result[w].history.user_id = req[w].user_id
                     /\ result[w].history.messages = <<>>
    /\ \A u \in Users :
          u \in get_all_users => (appended[u] # <<>> \/ Writing(u))

\* a get for a user without a record has returned while another user has one
C14_Witness ==
    \E w \in Workers :
        /\ req[w].op = "get"
        /\ before[w] = Absent
        /\ pc[w] = "done"
        /\ get_all_users # {}

\* C15: clear never fails; after it the user has no record, a get returns no
\* messages and the user is not listed; a clear for a user without a record
\* leaves the store as it was.
C15_ClearIdempotent ==
    \A w \in Workers :
        req[w].op = "clear" =>
            /\ pc[w] # "failed"
            /\ pc[w] = "done" =>
                   /\ result[w] = [status |-> "ok"]
                   /\ get_history(files[req[w].user_id], req[w].user_id, clock).ok
                   /\ get_history(files[req[w].user_id], req[w].user_id,
                                  clock).history.messages = <<>>
                   /\ req[w].user_id \notin get_all_users
                   /\ before[w] = Absent => files[req[w].user_id] = before[w]

\* a clear for a user without a record has returned while another user has one
C15_Witness ==
    \E w \in Workers :
        /\ req[w].op = "clear"
        /\ before[w] = Absent
        /\ pc[w] = "done"
        /\ get_all_users # {}

\* C16: the count of the vector index is 0 right after a clear, a successful
\* add of N records returns N and raises the count by N, and so the count is
\* always the number of records added since the last clear (less those that
\* delete_by_source has removed since, when it was called).  A clear that has
\* returned leaves a collection to count; one that failed in
\* create_collection has removed the records and left no collection, on which
\* count raises instead of returning a number.
C16_CountTracksAdds ==
    /\ get_collection_count(collection) = added - deleted
    /\ CollectionMissing => collection = <<>>
    /\ \A w \in Workers :
          /\ (req[w].op = "count" /\ pc[w] = "done") =>
                 /\ result[w].count = added - deleted
                 /\ ~CollectionMissing
          /\ (req[w].op = "count" /\ pc[w] = "failed") =>
                 result[w] = Failure("count", "ProviderError")
          /\ (req[w].op = "clear_db" /\ pc[w] = "done") =>
                 /\ get_collection_count(collection) = 0
                 /\ ~CollectionMissing
          /\ (req[w].op = "clear_db" /\ pc[w] = "failed" /\ Len(calls[w]) = 2) =>
                 /\ CollectionMissing
                 /\ added = 0
          /\ (req[w].op = "add" /\ pc[w] = "done") =>
                 /\ result[w].count = Len(chunks[w])
                 /\ added >= Len(chunks[w])

\* a count has been taken of records added after a clear that removed others
C16_Witness ==
    \E w \in Workers :
        /\ req[w].op = "count"
        /\ pc[w] = "done"
        /\ added > 1
        /\ deleted = 0
        /\ uuid_next - 1 > added

\* C17: add_documents fails with the length error whenever the chunks and the
\* embeddings differ in number, without a call to the collection, and the
\* collection is left as it was.
C17_MismatchAddsNothing ==
    [][\A w \in Workers :
          (/\ pc[w] = "i_store"
           /\ pc'[w] # "i_store"
           /\ Len(chunks[w]) # Len(embeddings[w])) =>
              /\ pc'[w] = "failed"
              /\ result'[w] = Failure("store", "ValueError")
              /\ calls'[w] = calls[w]
              /\ collection' = collection
      ]_vars

\* an add with lists of different lengths has failed over a collection that
\* holds records
C17_Witness ==
    \E w \in Workers :
        /\ req[w].op = "add"
        /\ pc[w] = "failed"
        /\ result[w] = Failure("store", "ValueError")
        /\ chunks[w] # <<>>
        /\ embeddings[w] # <<>>
        /\ collection # <<>>

C19_BlankTextNeverSubmitted ==
    \A w \in Workers :
        (/\ req[w].op = "embed"
         /\ \E i \in 1..Len(req[w].texts) : Normalize(req[w].texts[i]) = <<>>) =>
            /\ pc[w] = "failed"
            /\ result[w] = Failure("embed", "EmptyInput")
            /\ calls[w] = <<>>

\* the lengths by which chunk c may overlap the chunk p before it
Overlaps(p, c) ==
    {o \in 0..Min(chunk_overlap, Min(Len(p), Len(c))) :
        SubSeq(p, Len(p) - o + 1, Len(p)) = SubSeq(c, 1, o)}

\* the texts got from the first k chunks by appending to each chunk the part
\* of the next that does not overlap it
RECURSIVE Joined(_, _)
Joined(cs, k) ==
    IF k = 0 THEN { <<>> }
    ELSE IF k = 1 THEN { cs[1] }
    ELSE { t \o SubSeq(cs[k], o + 1, Len(cs[k])) :
             t \in Joined(cs, k - 1), o \in Overlaps(cs[k - 1], cs[k]) }

\* C20: the chunks of any text are each at most chunk_size long, and joining
\* them without their overlaps gives the text back.
C20_ChunksRebuildText ==
    \A w \in Workers :
        (req[w].op = "split" /\ pc[w] = "done") =>
            /\ \A i \in 1..Len(result[w].chunks) : Len(result[w].chunks[i]) <= chunk_size
            /\ req[w].text \in Joined(result[w].chunks, Len(result[w].chunks))

\* the messages of a file, none when there is no file
MessagesOf(file) == IF file.kind = "json" THEN file.data.messages ELSE <<>>

\* C21: every successful query appends exactly one interaction to the user's
\* record, after the generation provider has returned: the record is the one
\* the call found with one interaction more (less the oldest when the window
\* is full), holding the query text, the answer text and a retrieved count
\* equal to the length of the retrieved sequence the caller receives; that
\* sequence is the whole result of the index query, passages uncut.  Until the
\* generation provider has returned the record is untouched.
C21_AnswerAppendsOne ==
    \A w \in Workers :
        req[w].op = "query" =>
            /\ pc[w] \in QueryPending => files[req[w].user_id] = before[w]
            /\ pc[w] = "done" =>
                   LET u == req[w].user_id
                       old == MessagesOf(before[w])
                       new == MessagesOf(files[u])
                       docs == result[w].retrieved_docs
                       kept == Min(Len(old), max_history - 1)
                   IN  /\ result[w].status = "ok"
                       /\ files[u].kind = "json"
                       /\ Len(new) = kept + 1
                       /\ Front(new) = SubSeq(old, Len(old) - kept + 1, Len(old))
                       /\ Last(new).user = req[w].query
                       /\ Last(new).assistant = result[w].answer
                       /\ Last(new).retrieved_docs = Len(docs)
                       /\ calls[w] = <<"embedding", "index", "store", "generation", "store">>
                       /\ \E r \in Rankings(collection, query_embedding[w], 5) :
                             /\ Len(docs) = Len(r)
                             /\ \A i \in 1..Len(r) :
                                   /\ docs[i].content = collection[r[i]].document
                                   /\ docs[i].metadata = collection[r[i]].metadata

\* a query has returned two passages, one of them longer than a character, to
\* a user whose record was full before the call
C21_Witness ==
    \E w \in Workers :
        /\ req[w].op = "query"
        /\ pc[w] = "done"
        /\ Len(MessagesOf(before[w])) = max_history
        /\ Len(result[w].retrieved_docs) = 2
        /\ \E i \in 1..2 : Len(result[w].retrieved_docs[i].content) > 1

\* the chunks of the documents before the k-th
RECURSIVE ChunksBefore(_, _)
ChunksBefore(docs, k) ==
    IF k <= 1 THEN 0
    ELSE ChunksBefore(docs, k - 1) + Len(split_text(docs[k - 1].content))

\* C22: the chunker's output holds, for every document in input order, the n
\* chunks the document splits into, contiguously and in order, each carrying
\* the parent's metadata, a chunk index running 0..n-1 and the chunk count n;
\* the parent's metadata is what it was.
C22_ChunksCarryParent ==
    \A w \in Workers :
        (req[w].op = "chunk" /\ pc[w] = "done") =>
            LET docs == req[w].documents
                out == result[w].chunks
            IN  /\ Len(documents[w]) = Len(docs)
                /\ \A d \in 1..Len(docs) :
                       /\ documents[w][d].content = docs[d].content
                       /\ DOMAIN documents[w][d].metadata = DOMAIN docs[d].metadata
                       /\ \A key \in DOMAIN docs[d].metadata :
                              documents[w][d].metadata[key] = docs[d].metadata[key]
                /\ Len(out) = ChunksBefore(docs, Len(docs) + 1)
                /\ \A d \in 1..Len(docs) :
                       LET parts == split_text(docs[d].content)
                           at == ChunksBefore(docs, d)
                       IN  \A i \in 1..Len(parts) :
                               /\ out[at + i].content = parts[i]
                               /\ \A key \in DOMAIN docs[d].metadata :
                                      out[at + i].metadata[key] = docs[d].metadata[key]
                               /\ out[at + i].metadata.chunk_id = i - 1
                               /\ out[at + i].metadata.total_chunks = Len(parts)
                               /\ DOMAIN out[at + i].metadata =
                                      DOMAIN docs[d].metadata \cup {"chunk_id", "total_chunks"}

\* two different documents were chunked, the first into several chunks
C22_Witness ==
    \E w \in Workers :
        /\ req[w].op = "chunk"
        /\ pc[w] = "done"
        /\ Len(req[w].documents) = 2
        /\ req[w].documents[1] # req[w].documents[2]
        /\ Len(split_text(req[w].documents[1].content)) > 1
        /\ Len(result[w].chunks) > 2

\* an append for user u has read the record and not yet written it
AppendInFlight(u) ==
    \E w \in Workers :
        /\ req[w].op = "query"
        /\ req[w].user_id = u
        /\ pc[w] \in {"q_add_stamp", "q_add_updated", "q_open", "q_write"}

\* C23: cleared history is never resurrected: once no append for a user is in
\* flight, every interaction of the stored record was appended after the
\* user's last clear, also when the clear ran while an append was in flight.
C23_ClearedHistoryStaysCleared ==
    \A u \in Users :
        (files[u].kind = "json" /\ ~AppendInFlight(u)) =>
            \A i \in 1..Len(files[u].data.messages) :
                files[u].data.messages[i] \in Range(appended[u])

\* C24: the storing step of every successful ingestion run adds exactly one
\* record per chunk, each under an id no other record has, leaves every record
\* the index held in place and unchanged, and the run returns the number of
\* records it added; so a second run over the same directory doubles the count
\* instead of replacing the records of the first.
C24_IngestionAddsFreshRecords ==
    [][\A w \in Workers :
          (req[w].op = "index" /\ pc[w] = "i_store" /\ pc'[w] = "done") =>
              LET n == Len(chunks[w])
                  old == Len(collection)
              IN  /\ Len(collection') = old + n
                  /\ SubSeq(collection', 1, old) = collection
                  /\ \A i \in 1..n :
                         /\ collection'[old + i].document = chunks[w][i].content
                         /\ collection'[old + i].metadata = chunks[w][i].metadata
                         /\ collection'[old + i].embedding = embeddings[w][i]
                  /\ \A i \in (old + 1)..(old + n) : \A j \in 1..(old + n) :
                         i # j => collection'[i].id # collection'[j].id
                  /\ result'[w] = [status |-> "ok", count |-> n]
      ]_vars

\* a second run over the same directory has completed: the index holds the
\* chunks of the directory twice, under different ids
C24_Witness ==
    \E w \in Workers :
        /\ req[w].op = "index"
        /\ pc[w] = "done"
        /\ LET n == Len(chunks[w])
           IN  /\ n > 0
               /\ result[w].count = n
               /\ Len(collection) = 2 * n
               /\ \A i \in 1..n :
                      /\ collection[i].document = chunks[w][i].content
                      /\ collection[n + i].document = chunks[w][i].content
                      /\ collection[i].id # collection[n + i].id

\* C25: conversation records are isolated per user id: a get for user id B
\* returns no interaction that was appended for another user id A, and the
\* recent context of B renders no more interactions than B has appended.
C25_UsersIsolated ==
    \A w \in Workers :
        /\ (req[w].op = "get" /\ pc[w] = "done") =>
               \A a \in UserIds \ {req[w].user_id} :
                   \A i \in 1..Len(result[w].history.messages) :
                       result[w].history.messages[i] \notin Range(appended[a])
        /\ (req[w].op = "context" /\ pc[w] = "done") =>
               Occurrences(result[w].context, "User: ") <= Len(appended[req[w].user_id])

\* the directory is missing or holds no file of a supported type
NothingToIndex(dir) ==
    \/ ~dir.exists
    \/ \A i \in 1..Len(dir.files) :
           Lower(dir.files[i].suffix) \notin {".txt", ".pdf", ".docx"}

\* C26: POST /index answers a missing documents directory, and a directory
\* with no supported file, with status 400, and starts no stage of the
\* ingestion pipeline.
C26_IndexAnswers400 ==
    \A w \in Workers :
        (req[w].op = "post_index" /\ NothingToIndex(req[w].directory)) =>
            /\ pc[w] = "failed"
            /\ result[w].status = "error"
            /\ result[w].status_code = 400
            /\ calls[w] = <<>>
            /\ documents[w] = <<>>

====
